---- MODULE Spec2Model ----
(***************************************************************************)
(* Print Job Delivery Engine of aws-serverless-print-server                *)
(* (src/client/check-setup.js): the SQS consumer loop, processMessage,     *)
(* the idempotency cache, the temporary files and the shutdown handlers.   *)
(*                                                                         *)
(* Node runs one event loop: code between two awaits is atomic.  Every     *)
(* action below is one such run-to-completion slice: the resumption of an  *)
(* awaited call together with all synchronous code up to the next await.   *)
(***************************************************************************)
EXTENDS Integers, Sequences, FiniteSets, TLC

(***************************************************************************)
(* Bounds                                                                  *)
(***************************************************************************)
MaxReceive == 2      \* a message is delivered at most this many times
MaxTime == 14        \* the clock stops here (unit: one sweep interval, 5 min)

(***************************************************************************)
(* Program constants                                                       *)
(***************************************************************************)
IDEMPOTENCY_CACHE_DURATION == 12   \* 3600000 ms = 12 sweep intervals
CLEANUP_INTERVAL == 1              \* 300000 ms  = 1 sweep interval
CLIENT_ID == "c1"

Msgs == {"m1", "m2"}
Null == "null"
NoFile == <<"nofile">>
Absent == -1

(***************************************************************************)
(* Object keys are token sequences; "%61" is the percent-encoding of "a",  *)
(* "%zz" is a malformed escape.                                            *)
(***************************************************************************)
RawKeys ==
  { <<"clients", "/", "c1", "/", "a">>,
    <<"clients", "/", "c1", "/", "%61">>,
    <<"clients", "/", "c1", "/", "sub", "/", "a">>,
    <<"clients", "/", "c1", "/", "b">>,
    <<"clients", "/", "c2", "/", "a">>,
    <<"clients", "/", "c1", "/", "%zz">> }

Malformed(t) == t = "%zz"

DecodeToken(t) == IF t = "%61" THEN "a" ELSE t

\* decodeURIComponent: throws URIError on a malformed escape
DecodeThrows(raw) == \E i \in 1..Len(raw) : Malformed(raw[i])

decodeURIComponent(raw) == [i \in 1..Len(raw) |-> DecodeToken(raw[i])]

Keys == { decodeURIComponent(r) : r \in { x \in RawKeys : ~DecodeThrows(x) } }

\* startsWith that compares the first path segment only
StartsWith_FirstToken(s, p) == s[1] = p[1]

\* String.prototype.startsWith
StartsWith(s, p) ==
  /\ Len(p) <= Len(s)
  /\ \A i \in 1..Len(p) : s[i] = p[i]

ClientPrefix == <<"clients", "/", CLIENT_ID, "/">>

\* path.basename: the text after the last "/"
Basename(k) == k[Len(k)]

TmpPaths == { Basename(k) : k \in Keys }

(***************************************************************************)
(* Message bodies.  json = FALSE: text that is not JSON.  records: the     *)
(* Records array of the envelope (empty when absent); a record either has  *)
(* the s3.bucket / s3.object fields or not.                                *)
(***************************************************************************)
NoRecord == [hasS3 |-> FALSE, key |-> <<>>]

\* An envelope with two records, for the objects a and b of this client
TwoRecords ==
  [json |-> TRUE,
   records |-> <<[hasS3 |-> TRUE, key |-> <<"clients", "/", "c1", "/", "a">>],
                 [hasS3 |-> TRUE, key |-> <<"clients", "/", "c1", "/", "b">>]>>]

Bodies ==
  { [json |-> FALSE, records |-> <<>>],
    [json |-> TRUE, records |-> <<>>],
    [json |-> TRUE, records |-> <<NoRecord>>] }
  \cup { [json |-> TRUE, records |-> <<[hasS3 |-> TRUE, key |-> r]>>] : r \in RawKeys }
  \cup { TwoRecords }

\* A parser that reads the last record of the envelope
parseSqsMessage_LastRecord(b) ==
  IF ~b.json THEN [threw |-> TRUE, isValid |-> FALSE, key |-> <<>>]
  ELSE IF Len(b.records) = 0 THEN [threw |-> FALSE, isValid |-> FALSE, key |-> <<>>]
  ELSE IF ~b.records[Len(b.records)].hasS3 THEN [threw |-> TRUE, isValid |-> FALSE, key |-> <<>>]
  ELSE IF DecodeThrows(b.records[Len(b.records)].key)
       THEN [threw |-> TRUE, isValid |-> FALSE, key |-> <<>>]
  ELSE [threw |-> FALSE, isValid |-> TRUE,
        key |-> decodeURIComponent(b.records[Len(b.records)].key)]

\* parseSqsMessage: threw = an exception leaves the function
parseSqsMessage(b) ==
  IF ~b.json THEN [threw |-> TRUE, isValid |-> FALSE, key |-> <<>>]
  ELSE IF Len(b.records) = 0 THEN [threw |-> FALSE, isValid |-> FALSE, key |-> <<>>]
  ELSE IF ~b.records[1].hasS3 THEN [threw |-> TRUE, isValid |-> FALSE, key |-> <<>>]
  ELSE IF DecodeThrows(b.records[1].key) THEN [threw |-> TRUE, isValid |-> FALSE, key |-> <<>>]
  ELSE [threw |-> FALSE, isValid |-> TRUE, key |-> decodeURIComponent(b.records[1].key)]

VARIABLES
  body,                  \* Msgs -> Bodies: what the queue holds
  queue,                 \* Msgs -> "visible" | "invisible" | "deleted"
  rcvCount,              \* Msgs -> number of deliveries so far
  mainPc,                \* position of main()
  batch,                 \* messages of the Promise.allSettled being awaited
  connectionLost,
  lostLines,             \* "Connection lost" lines logged in the current run of
                         \* consecutive connectivity failures of the steady receive
  isShuttingDown,
  exited,                \* process.exit was called
  activeProcessingCount,
  pc,                    \* Msgs -> position of the processMessage invocation
  path,                  \* Msgs -> branch the invocation took
  s3key,                 \* Msgs -> s3Data.key of the invocation
  localFilePath,         \* Msgs -> the local variable of processMessage
  printResult,           \* Msgs -> what printFile returned
  trace,                 \* Msgs -> external effects of the invocation, in order
  processedKeys,         \* Keys -> timestamp, Absent when not in the Map
  files,                 \* TmpPaths -> key whose artifact the file holds, or NoFile
  fileAtFinish,          \* Msgs -> the file the invocation created existed when it finished
  now,                   \* Date.now()
  nextSweep,             \* when the setInterval callback fires next
  TEST_MODE,
  shutdownRequested,     \* a SIGINT or SIGTERM was delivered
  recvAfterShutdown,     \* a receive was issued after a signal was delivered
  wasCached,             \* Msgs -> the key was in processedKeys at the check of line 759
  ageAtCheck,            \* Msgs -> age of the entry that check found, else Absent
  returnedKeys,          \* keys for which printFile has returned
  succeededKeys,         \* keys for which printFile has returned true
  dispatches,            \* Msgs -> results of the lp commands run for the message, in order
  pf,                    \* Msgs -> the printFile invocation of the message, in detail
  cups,                  \* device names the print subsystem knows (lpstat lists them)
  ppdFiles,              \* driver files present next to the script
  up,                    \* the uploadPrintJob call of the quick-print mode
  QueueConfigurations,   \* the bucket's notification configuration, in order
  sqsQueues,             \* names of the queues that exist
  reg                    \* Calls -> a registerClient or unregisterClient call

engine_vars == <<body, queue, rcvCount, mainPc, batch, connectionLost, lostLines, isShuttingDown,
          exited, activeProcessingCount, pc, path, s3key, localFilePath,
          printResult, trace, processedKeys, files, fileAtFinish, now,
          nextSweep, TEST_MODE, shutdownRequested, recvAfterShutdown,
          wasCached, ageAtCheck, returnedKeys, succeededKeys, dispatches>>

printer_vars == <<pf, cups, ppdFiles>>
registry_vars == <<QueueConfigurations, sqsQueues, reg>>
side_vars == <<printer_vars, up, registry_vars>>
vars == <<engine_vars, side_vars>>

\* The state of the engine after main() reached the startup drain
EngineInit ==
  /\ body \in [Msgs -> Bodies]
  /\ queue = [m \in Msgs |-> "visible"]
  /\ rcvCount = [m \in Msgs |-> 0]
  /\ mainPc = "drain_recv"
  /\ batch = {}
  /\ connectionLost = FALSE
  /\ lostLines = 0
  /\ isShuttingDown = FALSE
  /\ exited = FALSE
  /\ activeProcessingCount = 0
  /\ pc = [m \in Msgs |-> "idle"]
  /\ path = [m \in Msgs |-> "none"]
  /\ s3key = [m \in Msgs |-> <<>>]
  /\ localFilePath = [m \in Msgs |-> Null]
  /\ printResult = [m \in Msgs |-> "none"]
  /\ trace = [m \in Msgs |-> <<>>]
  /\ processedKeys = [k \in Keys |-> Absent]
  /\ files = [p \in TmpPaths |-> NoFile]
  /\ fileAtFinish = [m \in Msgs |-> FALSE]
  /\ now = 0
  /\ nextSweep = CLEANUP_INTERVAL
  /\ TEST_MODE \in BOOLEAN
  /\ shutdownRequested = FALSE
  /\ recvAfterShutdown = FALSE
  /\ wasCached = [m \in Msgs |-> FALSE]
  /\ ageAtCheck = [m \in Msgs |-> Absent]
  /\ returnedKeys = {}
  /\ succeededKeys = {}
  /\ dispatches = [m \in Msgs |-> <<>>]

(***************************************************************************)
(* printFile and the printer resolver, lines 813-1016.  Printer ids are    *)
(* token sequences: a run of digits is one token, "." and "/" are tokens   *)
(* of their own.                                                           *)
(***************************************************************************)
Ip5 == <<"192", ".", "168", ".", "1", ".", "5">>
Ip7 == <<"10", ".", "0", ".", "0", ".", "7">>

PrinterIds ==
  { Ip5 \o <<"/", "socket">>,
    Ip5 \o <<"/", "lpd">>,
    Ip5 \o <<"/", "ipp">>,
    Ip5 \o <<"/", "http">>,
    Ip5,
    Ip7 \o <<"/", "socket">>,
    <<"Label_Printer_1">>,
    Ip5 \o <<"/">>,
    <<"/", "socket">>,
    Ip5 \o <<"/", "socket", "/", "x">>,
    <<"1234", ".", "168", ".", "1", ".", "5">>,
    <<"192", ".", "168", ".", "1">>,
    <<"host", ".", "local", "/", "socket">> }

\* The 'printer' metadata field of an object: an id, or absent (empty)
PrinterMetadata == PrinterIds \cup {<<>>}

\* null, for a variable that holds text otherwise
NullText == <<"null">>

\* JavaScript truthiness of a string-or-null value
Truthy(x) == x # NullText /\ x # <<>>

\* line 705: Metadata?.['printer'] || 'unknown'
PrinterIdOf(meta) == IF Truthy(meta) THEN meta ELSE <<"unknown">>

\* number of characters of a token made of digits only, 0 for any other token
DigitCount(t) ==
  CASE t \in {"0", "1", "5", "7"} -> 1
    [] t = "10" -> 2
    [] t \in {"192", "168"} -> 3
    [] t = "1234" -> 4
    [] OTHER -> 0

\* /^(\d{1,3}\.){3}\d{1,3}$/.test(s)
ipRegexTest(s) ==
  /\ Len(s) = 7
  /\ \A i \in 1..7 : IF i % 2 = 1 THEN DigitCount(s[i]) \in 1..3 ELSE s[i] = "."

\* String.prototype.includes for a one-character needle
Includes(s, c) == \E i \in 1..Len(s) : s[i] = c

\* String.prototype.split for a one-character separator
RECURSIVE Split(_, _)
Split(s, sep) ==
  IF ~Includes(s, sep) THEN <<s>>
  ELSE LET i == CHOOSE i \in 1..Len(s) : s[i] = sep /\ \A j \in 1..(i - 1) : s[j] # sep
       IN <<SubSeq(s, 1, i - 1)>> \o Split(SubSeq(s, i + 1, Len(s)), sep)

\* Every no-slash identifier taken for an address
ParsePrinterId_NoRegex(printerId) ==
  IF Includes(printerId, "/")
  THEN LET slashParts == Split(printerId, "/") IN
       IF Len(slashParts) = 2
       THEN [printerIp |-> slashParts[1], protocol |-> slashParts[2]]
       ELSE [printerIp |-> NullText, protocol |-> NullText]
  ELSE [printerIp |-> printerId, protocol |-> <<"ipp">>]

\* printFile lines 826-843: the values of printerIp and protocol
ParsePrinterId(printerId) ==
  IF Includes(printerId, "/")
  THEN LET slashParts == Split(printerId, "/") IN
       IF Len(slashParts) = 2
       THEN [printerIp |-> slashParts[1], protocol |-> slashParts[2]]
       ELSE [printerIp |-> NullText, protocol |-> NullText]
  ELSE IF ipRegexTest(printerId)
       THEN [printerIp |-> printerId, protocol |-> <<"ipp">>]
       ELSE [printerIp |-> NullText, protocol |-> NullText]

\* line 845: printerIp && protocol
IsNetworkPrinter(d) == Truthy(d.printerIp) /\ Truthy(d.protocol)

\* replace(".", "_") with a string pattern: the first dot only
getLocalPrinterName_FirstDot(printerIp) ==
  <<"_">> \o [i \in 1..Len(printerIp) |->
                IF printerIp[i] = "." /\ \A j \in 1..(i - 1) : printerIp[j] # "."
                THEN "_" ELSE printerIp[i]]

\* getLocalPrinterName, lines 966-968
getLocalPrinterName(printerIp) ==
  <<"_">> \o [i \in 1..Len(printerIp) |-> IF printerIp[i] = "." THEN "_" ELSE printerIp[i]]

\* lines 854 and 858: the device name the print is submitted to
LocalPrinterNameOf(printerId, d) ==
  IF IsNetworkPrinter(d) THEN getLocalPrinterName(d.printerIp) ELSE printerId

PpdNames == {"ZebraPrinterPPD", "BrotherQL820NwbCupsPpd.gz", "brother_ql820nwb_printer_en.ppd"}

\* getPPDPathForPrinter without the lpd block of lines 978-985
getPPDPathForPrinter_NoOverride(protocol, disk) ==
  IF protocol = <<"ipp">> THEN Null
  ELSE IF "BrotherQL820NwbCupsPpd.gz" \in disk THEN "BrotherQL820NwbCupsPpd.gz"
  ELSE IF "brother_ql820nwb_printer_en.ppd" \in disk THEN "brother_ql820nwb_printer_en.ppd"
  ELSE IF "ZebraPrinterPPD" \in disk THEN "ZebraPrinterPPD"
  ELSE Null

\* getPPDPathForPrinter, lines 970-1016; disk = the driver files that exist
getPPDPathForPrinter(protocol, disk) ==
  IF protocol = <<"ipp">> THEN Null
  ELSE IF protocol = <<"lpd">> /\ "ZebraPrinterPPD" \in disk THEN "ZebraPrinterPPD"
  ELSE IF "BrotherQL820NwbCupsPpd.gz" \in disk THEN "BrotherQL820NwbCupsPpd.gz"
  ELSE IF "brother_ql820nwb_printer_en.ppd" \in disk THEN "brother_ql820nwb_printer_en.ppd"
  ELSE IF "ZebraPrinterPPD" \in disk THEN "ZebraPrinterPPD"
  ELSE Null

\* A command line handed to the shell, or a dry-run log line of one
Command(cmd, device, scheme, driver) ==
  [cmd |-> cmd, device |-> device, scheme |-> scheme, driver |-> driver]

LpstatCommand == Command("lpstat", <<>>, "", "")
LpCommand(name) == Command("lp", name, "", "")
LpLogLine(name) == Command("log_lp", name, "", "")
SleepCall == Command("sleep", <<>>, "", "")

SupportedProtocols == {<<"socket">>, <<"lpd">>, <<"ipp">>}

\* registerNewPrinter with an ipp branch that looks for a driver file as the
\* socket branch does
RegisterCommand_IppDriverFile(ip, protocol, disk) ==
  LET ppdPath == getPPDPathForPrinter(IF protocol = <<"ipp">> THEN <<"socket">> ELSE protocol,
                                      disk)
      driver == IF ppdPath # Null THEN ppdPath ELSE "everywhere"
      name == getLocalPrinterName(ip)
  IN IF protocol \in SupportedProtocols
     THEN [throws |-> FALSE, command |-> Command("lpadmin", name, protocol[1], driver)]
     ELSE [throws |-> TRUE, command |-> Command("none", name, "", "")]

\* registerNewPrinter lines 921-946: the lpadmin command, or the throw of line 945
RegisterCommand(ip, protocol, disk) ==
  LET ppdPath == getPPDPathForPrinter(protocol, disk)
      driver == IF ppdPath # Null THEN ppdPath ELSE "everywhere"
      name == getLocalPrinterName(ip)
  IN IF protocol = <<"socket">>
     THEN [throws |-> FALSE, command |-> Command("lpadmin", name, "socket", driver)]
     ELSE IF protocol = <<"lpd">>
     THEN [throws |-> FALSE, command |-> Command("lpadmin", name, "lpd", driver)]
     ELSE IF protocol = <<"ipp">>
     THEN [throws |-> FALSE, command |-> Command("lpadmin", name, "ipp", "everywhere")]
     ELSE [throws |-> TRUE, command |-> Command("none", name, "", "")]

\* String.prototype.includes on token sequences
IsInfix(t, s) ==
  \E o \in 0..(Len(s) - Len(t)) : \A i \in 1..Len(t) : s[o + i] = t[i]

\* lines 889 and 904: stdout.includes(name), stdout listing the known devices
StdoutIncludes(known, name) == \E p \in known : IsInfix(name, p)

\* A printFile invocation before it is called
PfInit(meta, fileExists) ==
  [printerId |-> PrinterIdOf(meta), fileExists |-> fileExists, pc |-> "idle",
   printerIp |-> NullText, protocol |-> NullText, localPrinterName |-> <<>>,
   result |-> "none", effects |-> <<>>]

\* Device names an installation may hold before the client starts
InstalledPrinters == {getLocalPrinterName(Ip5), <<"Label_Printer_1">>}

(***************************************************************************)
(* uploadPrintJob, lines 110-164.  Paths, client ids, printer ids and       *)
(* option strings are token sequences; "/" is a token of its own.          *)
(***************************************************************************)
FilePaths ==
  { <<"label.pdf">>,
    <<"dir", "/", "label.pdf">>,
    <<"/", "tmp", "/", "a">>,
    <<"dir", "/", "sub", "/", "b">>,
    <<"dir", "/">> }

ClientIds == { <<"c1">>, <<"test-store">>, <<"a", "/", "b">>, <<>> }

UploadPrinterIds == { <<>>, Ip5 \o <<"/", "socket">>, <<"Label_Printer_1">> }

PrintOptions == { <<>>, <<"-o media=A4">> }

\* index of the last token of p that is not a "/", 0 when there is none
LastNameIndex(p) ==
  IF \A i \in 1..Len(p) : p[i] = "/" THEN 0
  ELSE CHOOSE i \in 1..Len(p) : p[i] # "/" /\ \A j \in (i + 1)..Len(p) : p[j] = "/"

\* path.basename: trailing separators dropped, then the text after the last "/"
PathBasename(p) ==
  LET e == LastNameIndex(p)
      b == IF \A i \in 1..e : p[i] # "/" THEN 1
           ELSE 1 + CHOOSE i \in 1..e : p[i] = "/" /\ \A j \in (i + 1)..e : p[j] # "/"
  IN IF e = 0 THEN <<>> ELSE SubSeq(p, b, e)

\* fs.readFileSync throws: no such file, or the path names a directory
ReadFileThrows(p, exists) == ~exists \/ p[Len(p)] = "/"

\* The key layout with the printer id as a path segment
UploadKey_PrinterInPath(clientId, filename, printerId) ==
  <<"clients", "/">> \o clientId \o <<"/">> \o printerId \o <<"/">> \o filename

\* line 121: `clients/${clientId}/${filename}`
UploadKey(clientId, filename, printerId) ==
  <<"clients", "/">> \o clientId \o <<"/">> \o filename

\* lines 124-130: the Metadata of the PutObject, as a set of <<field, value>>
UploadMetadata(printerId, printOptions) ==
  (IF Truthy(printerId) THEN {<<"printer", printerId>>} ELSE {})
  \cup (IF Truthy(printOptions) THEN {<<"print-options", printOptions>>} ELSE {})

NoPut == [key |-> <<>>, metadata |-> {}]

\* What the caller has before the call settles
NoResult == [success |-> FALSE, bucket |-> "", key |-> <<>>, error |-> ""]

\* lines 247-257: the name getResolvedBucketName resolves to
ResolvedBucketName == "printserver-123456789012-eu-central-1"

\* An uploadPrintJob call before it runs; timer: the cleanup timer is running
UpInit(filePath, clientId, printerId, printOptions, exists, timer) ==
  [pc |-> "idle", filePath |-> filePath, clientId |-> clientId,
   printerId |-> printerId, printOptions |-> printOptions, exists |-> exists,
   timer |-> timer, hadTimerRunning |-> FALSE, sent |-> FALSE, put |-> NoPut,
   bucket |-> "", stored |-> FALSE, result |-> NoResult]

UpIdle == UpInit(<<"label.pdf">>, <<"c1">>, <<>>, <<>>, FALSE, FALSE)

(***************************************************************************)
(* Client registry: registerClient (lines 269-377) and unregisterClient     *)
(* (lines 379-440).  Each call is one run of the script; two runs on two    *)
(* machines share the bucket's notification configuration and the queues.   *)
(***************************************************************************)
Calls == {"r1", "r2"}

RegistryClients == { <<"c1">>, <<"test-store">> }

\* line 276 and 413: `printserver-${clientId}`
QueueNameOf(clientId) == <<"printserver-">> \o clientId

\* line 339 and 395: `PrintServer-${clientId}`
NotificationIdOf(clientId) == <<"PrintServer-">> \o clientId

\* line 301: `arn:aws:sqs:${queueRegion}:${accountId}:${queueName}`
QueueArnOf(clientId) == <<"arn:aws:sqs:", "region", ":", "account", ":">> \o QueueNameOf(clientId)

\* lines 338-347: the entry registerClient appends
NotificationEntry(clientId) ==
  [Id |-> NotificationIdOf(clientId), QueueArn |-> QueueArnOf(clientId),
   Events |-> <<"s3:ObjectCreated:*">>,
   prefix |-> <<"clients", "/">> \o clientId \o <<"/">>]

\* A notification entry of the bucket that the print server did not write
ForeignEntry ==
  [Id |-> <<"Thumbnails">>, QueueArn |-> <<"arn:aws:sqs:", "region", ":", "account", ":", "thumbs">>,
   Events |-> <<"s3:ObjectCreated:*">>, prefix |-> <<"images", "/">>]

\* registerClient without the search for the client's entry
existingNotification_NeverFound(current, clientId) == FALSE

\* lines 329-331: (QueueConfigurations || []).find(config => config.Id === ...)
existingNotification(current, clientId) ==
  \E i \in 1..Len(current) : current[i].Id = NotificationIdOf(clientId)

\* lines 334-349: the configuration registerClient writes back
RegisterUpdate(current, clientId) == Append(current, NotificationEntry(clientId))

\* unregisterClient with a filter that keeps only the client's entries
UnregisterUpdate_KeepsOwn(current, clientId) ==
  SelectSeq(current, LAMBDA config : config.Id = NotificationIdOf(clientId))

\* lines 392-397: QueueConfigurations.filter(config => config.Id !== ...)
UnregisterUpdate(current, clientId) ==
  SelectSeq(current, LAMBDA config : config.Id # NotificationIdOf(clientId))

\* line 399
removedCount(current, clientId) == Len(current) - Len(UnregisterUpdate(current, clientId))

\* A call that was not made yet
RegIdle ==
  [pc |-> "idle", op |-> "none", clientId |-> <<>>, current |-> <<>>,
   before |-> <<>>, queuesBefore |-> {}, put |-> FALSE, deleted |-> FALSE,
   error |-> FALSE]

\* The configurations the bucket can hold before a call: distinct entries
InitialConfigurations ==
  LET E == {NotificationEntry(c) : c \in RegistryClients} \cup {ForeignEntry} IN
  { q \in UNION { [1..n -> E] : n \in 0..Cardinality(E) } :
      \A i, j \in 1..Len(q) : q[i] = q[j] => i = j }

\* No registry call is made and the bucket has no notification entries
RegistryInit ==
  /\ QueueConfigurations = <<>>
  /\ sqsQueues = {}
  /\ reg = [r \in Calls |-> RegIdle]

Init ==
  /\ EngineInit
  /\ pf = [m \in Msgs |-> PfInit(<<>>, FALSE)]
  /\ cups = {}
  /\ ppdFiles = {}
  /\ up = UpIdle
  /\ RegistryInit

(***************************************************************************)
(* processMessage, lines 719-811                                           *)
(***************************************************************************)

\* processMessage without the idempotency check of lines 759-766
StartPath_NoDupCheck(m) ==
  IF isShuttingDown THEN "skip"
  ELSE LET p == parseSqsMessage(body[m]) IN
       IF p.threw THEN "parse_error"
       ELSE IF ~p.isValid THEN "invalid"
       ELSE IF ~StartsWith(p.key, ClientPrefix) THEN "foreign"
       ELSE "fetch"

\* The branch the synchronous head of processMessage takes (lines 725-770):
\* it runs without an await from the increment up to the first awaited call.
StartPath(m) ==
  IF isShuttingDown THEN "skip"
  ELSE LET p == parseSqsMessage(body[m]) IN
       IF p.threw THEN "parse_error"
       ELSE IF ~p.isValid THEN "invalid"
       ELSE IF ~StartsWith(p.key, ClientPrefix) THEN "foreign"
       ELSE IF processedKeys[p.key] # Absent THEN "dup"
       ELSE "fetch"

\* Where the invocation waits after its synchronous head
StartPc(m) ==
  CASE StartPath(m) \in {"skip", "parse_error"} -> "done"
    [] StartPath(m) \in {"invalid", "foreign", "dup"} -> "deleting"
    [] OTHER -> "fetching"

\* The external call the synchronous head issues
StartTrace(m) ==
  CASE StartPath(m) \in {"skip", "parse_error"} -> <<>>
    [] StartPath(m) \in {"invalid", "foreign", "dup"} -> <<"delete">>
    [] OTHER -> <<"fetch">>

StartKey(m) ==
  IF StartPath(m) \in {"foreign", "dup", "fetch"}
  THEN parseSqsMessage(body[m]).key ELSE <<>>

\* The invocation reaches the check of line 759 and finds its key in the Map
CachedAtCheck(m) ==
  LET p == parseSqsMessage(body[m]) IN
  /\ ~isShuttingDown
  /\ ~p.threw
  /\ p.isValid
  /\ p.key[3] = CLIENT_ID
  /\ processedKeys[p.key] # Absent

\* Line 761: Date.now() - processedKeys.get(key), the age of the entry found
AgeAtCheck(m) ==
  IF CachedAtCheck(m) THEN now - processedKeys[parseSqsMessage(body[m]).key] ELSE Absent

\* A duplicate check that renews the entry it finds
CacheAfterHead_RefreshOnDuplicate(S) ==
  [k \in Keys |-> IF \E m \in S : StartPath(m) = "dup" /\ StartKey(m) = k
                  THEN now ELSE processedKeys[k]]

\* The Map after the synchronous heads of the batch S (lines 725-770): no
\* branch before the fetch writes it, the duplicate branch only reads it
CacheAfterHead(S) == processedKeys

\* processMessage recording the key at the check of line 759 already
StartBatch_MarkAtCheck(S) ==
  /\ queue' = [m \in Msgs |-> IF m \in S THEN "invisible" ELSE queue[m]]
  /\ rcvCount' = [m \in Msgs |-> IF m \in S THEN rcvCount[m] + 1 ELSE rcvCount[m]]
  /\ pc' = [m \in Msgs |-> IF m \in S THEN StartPc(m) ELSE pc[m]]
  /\ path' = [m \in Msgs |-> IF m \in S THEN StartPath(m) ELSE path[m]]
  /\ s3key' = [m \in Msgs |-> IF m \in S THEN StartKey(m) ELSE s3key[m]]
  /\ trace' = [m \in Msgs |-> IF m \in S THEN StartTrace(m) ELSE trace[m]]
  /\ localFilePath' = [m \in Msgs |-> IF m \in S THEN Null ELSE localFilePath[m]]
  /\ printResult' = [m \in Msgs |-> IF m \in S THEN "none" ELSE printResult[m]]
  /\ fileAtFinish' = [m \in Msgs |-> IF m \in S THEN FALSE ELSE fileAtFinish[m]]
  /\ activeProcessingCount' =
       activeProcessingCount + Cardinality({m \in S : StartPc(m) # "done"})
  /\ wasCached' = [m \in Msgs |-> IF m \in S THEN CachedAtCheck(m) ELSE wasCached[m]]
  /\ ageAtCheck' = [m \in Msgs |-> IF m \in S THEN AgeAtCheck(m) ELSE ageAtCheck[m]]
  /\ batch' = S
  /\ processedKeys' = [k \in Keys |->
                         IF \E m \in S : StartPath(m) = "fetch" /\ StartKey(m) = k
                         THEN now ELSE processedKeys[k]]
  /\ UNCHANGED <<files, returnedKeys, succeededKeys, dispatches>>

\* messages.map(message => processMessage(message, queueUrl)): every
\* invocation of the batch S runs its synchronous head in the same slice.
StartBatch(S) ==
  /\ queue' = [m \in Msgs |-> IF m \in S THEN "invisible" ELSE queue[m]]
  /\ rcvCount' = [m \in Msgs |-> IF m \in S THEN rcvCount[m] + 1 ELSE rcvCount[m]]
  /\ pc' = [m \in Msgs |-> IF m \in S THEN StartPc(m) ELSE pc[m]]
  /\ path' = [m \in Msgs |-> IF m \in S THEN StartPath(m) ELSE path[m]]
  /\ s3key' = [m \in Msgs |-> IF m \in S THEN StartKey(m) ELSE s3key[m]]
  /\ trace' = [m \in Msgs |-> IF m \in S THEN StartTrace(m) ELSE trace[m]]
  /\ localFilePath' = [m \in Msgs |-> IF m \in S THEN Null ELSE localFilePath[m]]
  /\ printResult' = [m \in Msgs |-> IF m \in S THEN "none" ELSE printResult[m]]
  /\ fileAtFinish' = [m \in Msgs |-> IF m \in S THEN FALSE ELSE fileAtFinish[m]]
  /\ activeProcessingCount' =
       activeProcessingCount + Cardinality({m \in S : StartPc(m) # "done"})
  /\ wasCached' = [m \in Msgs |-> IF m \in S THEN CachedAtCheck(m) ELSE wasCached[m]]
  /\ ageAtCheck' = [m \in Msgs |-> IF m \in S THEN AgeAtCheck(m) ELSE ageAtCheck[m]]
  /\ batch' = S
  /\ processedKeys' = CacheAfterHead(S)
  /\ UNCHANGED <<files, returnedKeys, succeededKeys, dispatches>>

\* A received batch that is not handed to processMessage (break at line 547)
DropBatch(S) ==
  /\ queue' = [m \in Msgs |-> IF m \in S THEN "invisible" ELSE queue[m]]
  /\ rcvCount' = [m \in Msgs |-> IF m \in S THEN rcvCount[m] + 1 ELSE rcvCount[m]]
  /\ UNCHANGED <<pc, path, s3key, trace, localFilePath, printResult, fileAtFinish,
                 activeProcessingCount, batch, processedKeys, files, wasCached, ageAtCheck,
                 returnedKeys, succeededKeys, dispatches>>

\* A finally block that decrements only when it goes on to exit the process
Finally_DecrementsAtExit(m, lfp, created) ==
  /\ files' = IF lfp # Null /\ files[lfp] # NoFile
              THEN [files EXCEPT ![lfp] = NoFile] ELSE files
  /\ fileAtFinish' = [fileAtFinish EXCEPT ![m] =
                        created /\ files'[Basename(s3key[m])] # NoFile]
  /\ activeProcessingCount' =
       IF isShuttingDown THEN activeProcessingCount - 1 ELSE activeProcessingCount
  /\ exited' = (isShuttingDown /\ activeProcessingCount' = 0)
  /\ pc' = [pc EXCEPT ![m] = "done"]

\* The finally block, lines 792-810.  created: the invocation opened its
\* local file (fetchS3DataAndDownload reached createWriteStream).
Finally(m, lfp, created) ==
  /\ files' = IF lfp # Null /\ files[lfp] # NoFile
              THEN [files EXCEPT ![lfp] = NoFile] ELSE files
  /\ fileAtFinish' = [fileAtFinish EXCEPT ![m] =
                        created /\ files'[Basename(s3key[m])] # NoFile]
  /\ activeProcessingCount' = activeProcessingCount - 1
  /\ exited' = (isShuttingDown /\ activeProcessingCount' = 0)
  /\ pc' = [pc EXCEPT ![m] = "done"]

Visible == {m \in Msgs : queue[m] = "visible"}

main_vars == <<mainPc, batch, connectionLost, lostLines, recvAfterShutdown, shutdownRequested>>
print_obs == <<wasCached, ageAtCheck, returnedKeys, succeededKeys, dispatches>>
queue_vars == <<queue, rcvCount>>
clock_vars == <<now, nextSweep>>

\* deleteMessage resolves (ok) or rejects; lines 744, 754, 764, 784, then
\* the catch block on rejection, then finally.
DeleteCompletes(m, ok) ==
  /\ ~exited
  /\ pc[m] = "deleting"
  /\ queue' = IF ok THEN [queue EXCEPT ![m] = "deleted"] ELSE queue
  /\ Finally(m, localFilePath[m], localFilePath[m] # Null)
  /\ UNCHANGED <<body, side_vars, rcvCount, main_vars, isShuttingDown, path, s3key,
                 localFilePath, printResult, trace, processedKeys, clock_vars,
                 TEST_MODE, print_obs>>

\* A catch block that deletes the message of a failed fetch
GetObjectFails_DeletesMessage(m) ==
  /\ ~exited
  /\ pc[m] = "fetching"
  /\ path' = [path EXCEPT ![m] = "get_failed"]
  /\ trace' = [trace EXCEPT ![m] = @ \o <<"delete">>]
  /\ pc' = [pc EXCEPT ![m] = "deleting"]
  /\ UNCHANGED <<body, side_vars, queue_vars, main_vars, isShuttingDown, s3key, exited,
                 localFilePath, printResult, processedKeys, clock_vars,
                 TEST_MODE, print_obs, files, fileAtFinish,
                 activeProcessingCount>>

\* GetObject fails (line 701): the exception reaches the catch block with
\* localFilePath still null.
GetObjectFails(m) ==
  /\ ~exited
  /\ pc[m] = "fetching"
  /\ path' = [path EXCEPT ![m] = "get_failed"]
  /\ Finally(m, Null, FALSE)
  /\ UNCHANGED <<body, side_vars, queue_vars, main_vars, isShuttingDown, s3key,
                 localFilePath, printResult, trace, processedKeys, clock_vars,
                 TEST_MODE, print_obs>>

\* GetObject succeeds: fs.createWriteStream opens (creates or truncates) the
\* local file and the body is piped into it (lines 709-714).
GetObjectSucceeds(m) ==
  /\ ~exited
  /\ pc[m] = "fetching"
  /\ pc' = [pc EXCEPT ![m] = "writing"]
  /\ files' = [files EXCEPT ![Basename(s3key[m])] = s3key[m]]
  /\ UNCHANGED <<body, side_vars, queue_vars, main_vars, isShuttingDown, exited,
                 activeProcessingCount, path, s3key, localFilePath, printResult,
                 trace, processedKeys, fileAtFinish, clock_vars, TEST_MODE, print_obs>>

\* The write stream emits 'error' (line 713): fetchS3DataAndDownload
\* rejects before line 771 assigns localFilePath.
WriteFails(m) ==
  /\ ~exited
  /\ pc[m] = "writing"
  /\ path' = [path EXCEPT ![m] = "write_failed"]
  /\ Finally(m, Null, TRUE)
  /\ UNCHANGED <<body, side_vars, queue_vars, main_vars, isShuttingDown, s3key,
                 localFilePath, printResult, trace, processedKeys, clock_vars,
                 TEST_MODE, print_obs>>

\* What printFile returns once the lp command has run (lines 866-882)
PrintOutcome(lpOk) == IF TEST_MODE THEN "true" ELSE IF lpOk THEN "true" ELSE "false"

\* processMessage going on only when printFile returned true
MarksAfterPrint_OnSuccess(result) == result = "true"

\* Whether processMessage goes on to lines 780-784 after printFile returned
\* result: line 777 awaits printFile and drops its value.
MarksAfterPrint(result) == TRUE

\* Lines 780-784 with the delete issued before the key is recorded
AfterPrint_DeleteBeforeMark(m, lfp, result, ev) ==
  /\ printResult' = [printResult EXCEPT ![m] = result]
  /\ returnedKeys' = returnedKeys \cup {s3key[m]}
  /\ succeededKeys' = IF result = "true" THEN succeededKeys \cup {s3key[m]}
                                         ELSE succeededKeys
  /\ dispatches' = [dispatches EXCEPT ![m] =
                      IF ev = <<"submit">> THEN Append(@, result) ELSE @]
  /\ processedKeys' = [processedKeys EXCEPT ![s3key[m]] = now]
  /\ trace' = [trace EXCEPT ![m] = @ \o ev \o <<"delete", "mark">>]
  /\ pc' = [pc EXCEPT ![m] = "deleting"]
  /\ UNCHANGED <<files, fileAtFinish, activeProcessingCount, exited>>

\* Lines 777-784 once printFile has returned result, having caused the
\* external effects ev: mark the key, then issue the delete.
AfterPrint(m, lfp, result, ev) ==
  /\ printResult' = [printResult EXCEPT ![m] = result]
  /\ returnedKeys' = returnedKeys \cup {s3key[m]}
  /\ succeededKeys' = IF result = "true" THEN succeededKeys \cup {s3key[m]}
                                         ELSE succeededKeys
  /\ dispatches' = [dispatches EXCEPT ![m] =
                      IF ev = <<"submit">> THEN Append(@, result) ELSE @]
  /\ IF MarksAfterPrint(result)
     THEN /\ processedKeys' = [processedKeys EXCEPT ![s3key[m]] = now]
          /\ trace' = [trace EXCEPT ![m] = @ \o ev \o <<"mark", "delete">>]
          /\ pc' = [pc EXCEPT ![m] = "deleting"]
          /\ UNCHANGED <<files, fileAtFinish, activeProcessingCount, exited>>
     ELSE /\ trace' = [trace EXCEPT ![m] = @ \o ev]
          /\ Finally(m, lfp, TRUE)
          /\ UNCHANGED processedKeys

\* The write stream emits 'finish' (line 712); processMessage goes on
\* synchronously through lines 771-777 and the head of printFile (814-822).
\* A file that a sibling unlinked meanwhile stays unlinked.
WriteSucceeds(m) ==
  LET lfp == Basename(s3key[m]) IN
  /\ ~exited
  /\ pc[m] = "writing"
  /\ localFilePath' = [localFilePath EXCEPT ![m] = lfp]
  /\ IF isShuttingDown
     THEN \* line 773
          /\ path' = [path EXCEPT ![m] = "stopped_after_fetch"]
          /\ Finally(m, lfp, TRUE)
          /\ UNCHANGED <<printResult, trace, processedKeys, returnedKeys,
                         succeededKeys, dispatches>>
     ELSE IF files[lfp] = NoFile
     THEN \* printFile line 819 returns false
          /\ path' = [path EXCEPT ![m] = "no_file"]
          /\ AfterPrint(m, lfp, "false", <<>>)
     ELSE /\ path' = [path EXCEPT ![m] = "print"]
          /\ pc' = [pc EXCEPT ![m] = "printing"]
          /\ UNCHANGED <<files, fileAtFinish, activeProcessingCount, exited,
                         printResult, trace, processedKeys, returnedKeys,
                         succeededKeys, dispatches>>
  /\ UNCHANGED <<body, side_vars, queue_vars, main_vars, isShuttingDown, s3key, clock_vars,
                 TEST_MODE, wasCached, ageAtCheck>>

\* printFile returns (lines 866-882): in TEST_MODE nothing is executed,
\* else lp runs and succeeds (lpOk) or fails.
PrintCompletes(m, lpOk) ==
  /\ ~exited
  /\ pc[m] = "printing"
  /\ TEST_MODE => lpOk
  /\ AfterPrint(m, localFilePath[m], PrintOutcome(lpOk),
                <<IF TEST_MODE THEN "dryrun" ELSE "submit">>)
  /\ UNCHANGED <<body, side_vars, queue_vars, main_vars, isShuttingDown, path, s3key,
                 localFilePath, clock_vars, TEST_MODE, wasCached, ageAtCheck>>

(***************************************************************************)
(* main, lines 516-585, and drainVisibleMessages, lines 653-678            *)
(***************************************************************************)

\* The loop test of line 536 followed by the receive of line 538
LoopTop ==
  IF isShuttingDown THEN "stopped" ELSE "steady_recv"

IssuesReceive(next) == next \in {"drain_recv", "steady_recv"}

GoTo(next) ==
  /\ mainPc' = next
  /\ recvAfterShutdown' = (recvAfterShutdown \/ (IssuesReceive(next) /\ shutdownRequested))
  /\ UNCHANGED shutdownRequested

\* The drain loop's zero-wait receive returns the messages S (lines 657-671).
\* An invocation that skips because of the shutdown flag runs its finally
\* block in the same slice (line 806).
DrainReceives(S) ==
  /\ ~exited
  /\ mainPc = "drain_recv"
  /\ S \subseteq Visible
  /\ UNCHANGED <<body, side_vars, isShuttingDown, connectionLost, lostLines, clock_vars, TEST_MODE>>
  /\ IF S = {}
     THEN \* line 666: break; then lines 526-538
          /\ GoTo(LoopTop)
          /\ UNCHANGED <<queue_vars, batch, exited, activeProcessingCount, pc,
                         path, s3key, localFilePath, printResult, trace,
                         processedKeys, files, fileAtFinish, print_obs>>
     ELSE /\ StartBatch(S)
          /\ GoTo("drain_wait")
          /\ exited' = (isShuttingDown /\ activeProcessingCount' = 0)

\* The drain loop's receive rejects: drainVisibleMessages throws into the
\* catch of line 583 and main returns.
DrainReceiveFails ==
  /\ ~exited
  /\ mainPc = "drain_recv"
  /\ GoTo("failed")
  /\ UNCHANGED <<body, side_vars, queue_vars, batch, connectionLost, lostLines, isShuttingDown,
                 exited, activeProcessingCount, pc, path, s3key, localFilePath,
                 printResult, trace, processedKeys, files, fileAtFinish,
                 clock_vars, TEST_MODE, print_obs>>

\* A wait that ends as soon as one invocation of the batch has finished
AllSettled_First(S) == \E m \in S : pc[m] = "done"

\* Promise.allSettled (lines 550, 669): every promise of the batch has settled
AllSettled(S) == \A m \in S : pc[m] = "done"

\* Promise.allSettled resolves (lines 550, 669): next iteration of the loop
BatchSettled ==
  /\ ~exited
  /\ mainPc \in {"drain_wait", "steady_wait"}
  /\ AllSettled(batch)
  /\ batch' = {}
  /\ GoTo(IF mainPc = "drain_wait" THEN "drain_recv" ELSE LoopTop)
  /\ UNCHANGED <<body, side_vars, queue_vars, connectionLost, lostLines, isShuttingDown, exited,
                 activeProcessingCount, pc, path, s3key, localFilePath,
                 printResult, trace, processedKeys, files, fileAtFinish,
                 clock_vars, TEST_MODE, print_obs>>

\* A steady loop that takes every answered receive for a reconnection
LogsConnected_OnAnyReceive(S) == connectionLost

\* lines 540-543: "Connected" is logged and the flag cleared
LogsConnected(S) == connectionLost /\ S # {}

\* The long-poll receive of line 538 returns the messages S (lines 540-552)
SteadyReceives(S) ==
  /\ ~exited
  /\ mainPc = "steady_recv"
  /\ S \subseteq Visible
  /\ connectionLost' = (connectionLost /\ ~LogsConnected(S))
  /\ lostLines' = 0
  /\ UNCHANGED <<body, side_vars, isShuttingDown, clock_vars, TEST_MODE>>
  /\ IF S = {}
     THEN /\ GoTo(LoopTop)
          /\ UNCHANGED <<queue_vars, batch, exited, activeProcessingCount, pc,
                         path, s3key, localFilePath, printResult, trace,
                         processedKeys, files, fileAtFinish, print_obs>>
     ELSE IF isShuttingDown
     THEN \* line 547
          /\ DropBatch(S)
          /\ GoTo("stopped")
          /\ UNCHANGED exited
     ELSE /\ StartBatch(S)
          /\ GoTo("steady_wait")
          /\ UNCHANGED exited

NetworkErrorCodes == {"ENOTFOUND", "ECONNREFUSED", "ENETUNREACH", "ETIMEDOUT"}
ErrorCodes == {"ENOTFOUND", "ETIMEDOUT", "AccessDenied"}

\* lines 566-569: "Connection lost" is logged and the flag set
LogsConnectionLost(c) == c \in NetworkErrorCodes /\ ~connectionLost

\* The receive of line 538 rejects with error code c (lines 561-576)
SteadyReceiveFails(c) ==
  /\ ~exited
  /\ mainPc = "steady_recv"
  /\ IF isShuttingDown
     THEN /\ GoTo("stopped")
          /\ UNCHANGED <<connectionLost, lostLines>>
     ELSE IF c \in NetworkErrorCodes
     THEN /\ connectionLost' = TRUE
          /\ lostLines' = IF LogsConnectionLost(c) THEN lostLines + 1 ELSE lostLines
          /\ GoTo("sleep_10s")
     ELSE /\ GoTo("sleep_5s")
          /\ lostLines' = 0
          /\ UNCHANGED connectionLost
  /\ UNCHANGED <<body, side_vars, queue_vars, batch, isShuttingDown, exited,
                 activeProcessingCount, pc, path, s3key, localFilePath,
                 printResult, trace, processedKeys, files, fileAtFinish,
                 clock_vars, TEST_MODE, print_obs>>

\* The backoff sleep of line 571 or 574 ends: back to the loop test
BackoffEnds ==
  /\ ~exited
  /\ mainPc \in {"sleep_10s", "sleep_5s"}
  /\ GoTo(LoopTop)
  /\ UNCHANGED <<body, side_vars, queue_vars, batch, connectionLost, lostLines, isShuttingDown,
                 exited, activeProcessingCount, pc, path, s3key, localFilePath,
                 printResult, trace, processedKeys, files, fileAtFinish,
                 clock_vars, TEST_MODE, print_obs>>

(***************************************************************************)
(* Signal handlers, lines 170-192 and 1032-1040                            *)
(***************************************************************************)

\* The first listener (lines 170-180, 182-192) exits only when idle
FirstHandlerExits(n) == ~(n > 0)

\* The second listener (lines 1032-1040) always exits
SecondHandlerExits == TRUE

\* Listeners that only log the signal
OnSignal_LogOnly(n) == [flag |-> FALSE, exits |-> FALSE]

\* Node calls the listeners of a signal one after the other, with n
\* invocations active: flag is the new isShuttingDown, exits whether
\* process.exit is reached.
OnSignal(n) ==
  [flag |-> TRUE, exits |-> FirstHandlerExits(n) \/ SecondHandlerExits]

\* SIGINT or SIGTERM is delivered
Signal ==
  /\ ~exited
  /\ shutdownRequested' = TRUE
  /\ isShuttingDown' = OnSignal(activeProcessingCount).flag
  /\ exited' = OnSignal(activeProcessingCount).exits
  /\ UNCHANGED <<body, side_vars, queue_vars, mainPc, batch, connectionLost, lostLines,
                 recvAfterShutdown, activeProcessingCount, pc, path,
                 s3key, localFilePath, printResult, trace, processedKeys, files,
                 fileAtFinish, clock_vars, TEST_MODE, print_obs>>

(***************************************************************************)
(* The queue and the clock                                                 *)
(***************************************************************************)

\* The visibility timeout (300 s, line 642) of a received, undeleted message
\* expires while the consumer runs, after the batch it came in has settled
Redeliver(m) ==
  /\ ~exited
  /\ queue[m] = "invisible"
  /\ pc[m] \in {"idle", "done"}
  /\ m \notin batch
  /\ rcvCount[m] < MaxReceive
  /\ queue' = [queue EXCEPT ![m] = "visible"]
  /\ UNCHANGED <<body, side_vars, rcvCount, main_vars, isShuttingDown, exited,
                 activeProcessingCount, pc, path, s3key, localFilePath,
                 printResult, trace, processedKeys, files, fileAtFinish,
                 clock_vars, TEST_MODE, print_obs>>

\* Time passes, up to the moment the cleanup timer is due
Tick ==
  /\ now < MaxTime
  /\ now < nextSweep
  /\ now' = now + 1
  /\ UNCHANGED <<body, side_vars, queue_vars, main_vars, isShuttingDown, exited,
                 activeProcessingCount, pc, path, s3key, localFilePath,
                 printResult, trace, processedKeys, files, fileAtFinish,
                 nextSweep, TEST_MODE, print_obs>>

\* The expiry test with the boundary age counted as expired
Expired_AtWindow(ts) == now - ts >= IDEMPOTENCY_CACHE_DURATION

\* The test of line 211: now - timestamp > IDEMPOTENCY_CACHE_DURATION
Expired(ts) == now - ts > IDEMPOTENCY_CACHE_DURATION

\* A timer callback that fires on time and removes nothing
Sweep_KeepsEntries ==
  /\ ~exited
  /\ now = nextSweep
  /\ nextSweep' = now + CLEANUP_INTERVAL
  /\ UNCHANGED <<body, side_vars, queue_vars, main_vars, isShuttingDown, exited,
                 activeProcessingCount, pc, path, s3key, localFilePath,
                 printResult, trace, processedKeys, files, fileAtFinish, now,
                 TEST_MODE, print_obs>>

\* The setInterval callback of startIdempotencyCleanupTimer, lines 207-219
Sweep ==
  /\ ~exited
  /\ now = nextSweep
  /\ processedKeys' = [k \in Keys |->
                         IF processedKeys[k] # Absent /\ Expired(processedKeys[k])
                         THEN Absent ELSE processedKeys[k]]
  /\ nextSweep' = now + CLEANUP_INTERVAL
  /\ UNCHANGED <<body, side_vars, queue_vars, main_vars, isShuttingDown, exited,
                 activeProcessingCount, pc, path, s3key, localFilePath,
                 printResult, trace, files, fileAtFinish, now, TEST_MODE,
                 print_obs>>

Next ==
  \/ \E S \in SUBSET Msgs : DrainReceives(S)
  \/ DrainReceiveFails
  \/ BatchSettled
  \/ \E S \in SUBSET Msgs : SteadyReceives(S)
  \/ \E c \in ErrorCodes : SteadyReceiveFails(c)
  \/ BackoffEnds
  \/ \E m \in Msgs : \E ok \in BOOLEAN : DeleteCompletes(m, ok)
  \/ \E m \in Msgs : GetObjectFails(m)
  \/ \E m \in Msgs : GetObjectSucceeds(m)
  \/ \E m \in Msgs : WriteFails(m)
  \/ \E m \in Msgs : WriteSucceeds(m)
  \/ \E m \in Msgs : \E lpOk \in BOOLEAN : PrintCompletes(m, lpOk)
  \/ Signal
  \/ \E m \in Msgs : Redeliver(m)

\* The delivery engine at one instant of the clock
Spec == Init /\ [][Next]_vars

\* The delivery engine with time passing and the cleanup timer firing
NextClock == Next \/ Tick \/ Sweep

\* One job of this client in each of the two messages
TwoJobsQueued ==
  /\ body["m1"] = [json |-> TRUE, records |-> <<[hasS3 |-> TRUE, key |-> <<"clients", "/", "c1", "/", "a">>]>>]
  /\ body["m2"] = [json |-> TRUE, records |-> <<[hasS3 |-> TRUE, key |-> <<"clients", "/", "c1", "/", "b">>]>>]

\* A job of this client in one message, a job of another client in the other
OneJobQueued ==
  /\ body["m1"] = [json |-> TRUE, records |-> <<[hasS3 |-> TRUE, key |-> <<"clients", "/", "c1", "/", "a">>]>>]
  /\ body["m2"] = [json |-> TRUE, records |-> <<[hasS3 |-> TRUE, key |-> <<"clients", "/", "c2", "/", "a">>]>>]

\* A start of the engine in dry-run with these two messages queued
InitClock ==
  /\ Init
  /\ TEST_MODE
  /\ OneJobQueued

SpecClock == InitClock /\ [][NextClock]_vars

(***************************************************************************)
(* The client over several runs of the process: after the process has      *)
(* ended it is started again.  The queue, the clock and the temporary      *)
(* directory outlive the process; the module state of lines 166-203 does   *)
(* not.  returnedKeys and succeededKeys then speak of the current run,     *)
(* dispatches of all runs.                                                 *)
(***************************************************************************)

\* A cache that is loaded again at the start of the process
CacheAtStart_Persistent == processedKeys

\* line 201: const processedKeys = new Map()
CacheAtStart == [k \in Keys |-> Absent]

\* The module is loaded and main runs up to its first receive (lines 166-203,
\* 516-525, 1051); the invocations of the run before are gone
Restart ==
  /\ exited
  /\ exited' = FALSE
  /\ isShuttingDown' = FALSE
  /\ activeProcessingCount' = 0
  /\ processedKeys' = CacheAtStart
  /\ mainPc' = "drain_recv"
  /\ batch' = {}
  /\ connectionLost' = FALSE
  /\ lostLines' = 0
  /\ shutdownRequested' = FALSE
  /\ recvAfterShutdown' = FALSE
  /\ pc' = [m \in Msgs |-> "idle"]
  /\ path' = [m \in Msgs |-> "none"]
  /\ s3key' = [m \in Msgs |-> <<>>]
  /\ localFilePath' = [m \in Msgs |-> Null]
  /\ printResult' = [m \in Msgs |-> "none"]
  /\ trace' = [m \in Msgs |-> <<>>]
  /\ fileAtFinish' = [m \in Msgs |-> FALSE]
  /\ wasCached' = [m \in Msgs |-> FALSE]
  /\ ageAtCheck' = [m \in Msgs |-> Absent]
  /\ returnedKeys' = {}
  /\ succeededKeys' = {}
  /\ nextSweep' = now + CLEANUP_INTERVAL
  /\ UNCHANGED <<body, side_vars, queue_vars, files, now, TEST_MODE, dispatches>>

NextRestart == Next \/ Restart

\* A start of the engine with one job of this client queued
InitRestart ==
  /\ Init
  /\ OneJobQueued

SpecRestart == InitRestart /\ [][NextRestart]_vars

(***************************************************************************)
(* printFile step by step: the invocations made for the two messages of a  *)
(* batch, against one print subsystem.  The engine stands still meanwhile. *)
(***************************************************************************)

\* registerNewPrinter without the TEST_MODE test of line 948
SkipsLpadmin_Never == FALSE

\* line 948: if (TEST_MODE) return true, before the lpadmin command runs
SkipsLpadmin == TEST_MODE

\* line 868: if (TEST_MODE) return true, before the lp command runs
SkipsLp == TEST_MODE

\* lines 866-875: build the lp command; log it in dry-run, else start it
Dispatch(r, name) ==
  IF SkipsLp
  THEN [r EXCEPT !.localPrinterName = name, !.effects = Append(@, LpLogLine(name)),
                 !.result = "true", !.pc = "returned"]
  ELSE [r EXCEPT !.localPrinterName = name, !.effects = Append(@, LpCommand(name)),
                 !.pc = "lp"]

\* lines 814-850 and 861: the guards, the parse, and the lpstat command started
PrintFileCalled(m) ==
  /\ pf[m].pc = "idle"
  /\ LET r == pf[m]
         d == ParsePrinterId(r.printerId)
     IN pf' = [pf EXCEPT ![m] =
                 IF ~Truthy(r.printerId) \/ ~r.fileExists
                 THEN [r EXCEPT !.result = "false", !.pc = "returned"]
                 ELSE [r EXCEPT !.printerIp = d.printerIp, !.protocol = d.protocol,
                                !.effects = Append(@, LpstatCommand), !.pc = "lpstat"]]
  /\ UNCHANGED <<engine_vars, cups, ppdFiles, up, registry_vars>>

\* lpstat returns (ok) or fails: isPrinterRegistered / isPrinterRegisteredByName
\* finish, then registerNewPrinter up to its lpadmin command, or the lp command
LpstatCompletes(m, ok) ==
  /\ pf[m].pc = "lpstat"
  /\ LET r == pf[m]
         d == [printerIp |-> r.printerIp, protocol |-> r.protocol]
         name == LocalPrinterNameOf(r.printerId, d)
         listed == ok /\ StdoutIncludes(cups, name)
         c == RegisterCommand(r.printerIp, r.protocol, ppdFiles)
     IN pf' = [pf EXCEPT ![m] =
                 IF IsNetworkPrinter(d) /\ ~listed
                 THEN IF c.throws
                      THEN Dispatch(r, name)
                      ELSE IF SkipsLpadmin
                      THEN Dispatch([r EXCEPT !.effects =
                                       Append(@, [c.command EXCEPT !.cmd = "log_lpadmin"])],
                                    name)
                      ELSE [r EXCEPT !.effects = Append(@, c.command), !.pc = "lpadmin"]
                 ELSE Dispatch(r, name)]
  /\ UNCHANGED <<engine_vars, cups, ppdFiles, up, registry_vars>>

\* lpadmin returns: the device is known from now on and the settle delay starts
\* (line 957); or it fails: registerNewPrinter returns false, which line 851 drops
LpadminCompletes(m, ok) ==
  /\ pf[m].pc = "lpadmin"
  /\ LET r == pf[m]
         name == getLocalPrinterName(r.printerIp)
     IN IF ok
        THEN /\ cups' = cups \cup {name}
             /\ pf' = [pf EXCEPT ![m] = [r EXCEPT !.effects = Append(@, SleepCall),
                                                  !.pc = "settle"]]
        ELSE /\ cups' = cups
             /\ pf' = [pf EXCEPT ![m] = Dispatch(r, name)]
  /\ UNCHANGED <<engine_vars, ppdFiles, up, registry_vars>>

\* sleep(5000) of line 957 ends
SettleEnds(m) ==
  /\ pf[m].pc = "settle"
  /\ pf' = [pf EXCEPT ![m] = Dispatch(pf[m], getLocalPrinterName(pf[m].printerIp))]
  /\ UNCHANGED <<engine_vars, cups, ppdFiles, up, registry_vars>>

\* lp returns or fails, lines 875-882
LpCompletes(m, ok) ==
  /\ pf[m].pc = "lp"
  /\ pf' = [pf EXCEPT ![m] = [@ EXCEPT !.result = IF ok THEN "true" ELSE "false",
                                       !.pc = "returned"]]
  /\ UNCHANGED <<engine_vars, cups, ppdFiles, up, registry_vars>>

NextPrinter ==
  \/ \E m \in Msgs : PrintFileCalled(m)
  \/ \E m \in Msgs : \E ok \in BOOLEAN : LpstatCompletes(m, ok)
  \/ \E m \in Msgs : \E ok \in BOOLEAN : LpadminCompletes(m, ok)
  \/ \E m \in Msgs : SettleEnds(m)
  \/ \E m \in Msgs : \E ok \in BOOLEAN : LpCompletes(m, ok)

\* Two jobs reach printFile: any printer metadata, the temporary file there or
\* gone, any set of driver files, any devices installed beforehand
InitPrinter ==
  /\ EngineInit
  /\ TwoJobsQueued
  /\ pf \in [Msgs -> {PfInit(meta, e) : meta \in PrinterMetadata, e \in BOOLEAN}]
  /\ cups \in SUBSET InstalledPrinters
  /\ ppdFiles \in SUBSET PpdNames
  /\ up = UpIdle
  /\ RegistryInit

SpecPrinter == InitPrinter /\ [][NextPrinter]_vars

(***************************************************************************)
(* uploadPrintJob step by step                                             *)
(***************************************************************************)

\* A catch block that throws the error on, after the finally block
UploadFails_Rethrows(u, message) ==
  [u EXCEPT !.pc = "threw", !.timer = u.hadTimerRunning]

\* lines 154-163: the catch and finally blocks
UploadFails(u, message) ==
  [u EXCEPT !.pc = "returned", !.timer = u.hadTimerRunning,
            !.result = [success |-> FALSE, bucket |-> "", key |-> <<>>,
                        error |-> message]]

\* lines 111-132: stop the timer, read the file, build key and metadata,
\* start resolving the bucket name
UploadCalled ==
  /\ up.pc = "idle"
  /\ LET u == [up EXCEPT !.hadTimerRunning = up.timer, !.timer = FALSE] IN
     up' = IF ReadFileThrows(u.filePath, u.exists)
           THEN UploadFails(u, "ENOENT")
           ELSE [u EXCEPT !.pc = "resolving",
                          !.put = [key |-> UploadKey(u.clientId, PathBasename(u.filePath),
                                                     u.printerId),
                                   metadata |-> UploadMetadata(u.printerId, u.printOptions)]]
  /\ UNCHANGED <<engine_vars, printer_vars, registry_vars>>

\* getResolvedBucketName returns or throws (line 133); on return the
\* PutObject is sent (line 141)
BucketResolved(ok) ==
  /\ up.pc = "resolving"
  /\ up' = IF ok
           THEN [up EXCEPT !.pc = "putting", !.sent = TRUE, !.bucket = ResolvedBucketName]
           ELSE UploadFails(up, "CredentialsProviderError")
  /\ UNCHANGED <<engine_vars, printer_vars, registry_vars>>

\* PutObject returns or fails, lines 141-163
PutCompletes(ok) ==
  /\ up.pc = "putting"
  /\ up' = IF ok
           THEN [up EXCEPT !.pc = "returned", !.timer = up.hadTimerRunning,
                           !.stored = TRUE,
                           !.result = [success |-> TRUE, bucket |-> up.bucket,
                                       key |-> up.put.key, error |-> ""]]
           ELSE UploadFails(up, "AccessDenied")
  /\ UNCHANGED <<engine_vars, printer_vars, registry_vars>>

NextUpload ==
  \/ UploadCalled
  \/ \E ok \in BOOLEAN : BucketResolved(ok)
  \/ \E ok \in BOOLEAN : PutCompletes(ok)

\* A call of uploadPrintJob with any arguments, the file there or not
InitUpload ==
  /\ EngineInit
  /\ TwoJobsQueued
  /\ TEST_MODE
  /\ pf = [m \in Msgs |-> PfInit(<<>>, FALSE)]
  /\ cups = {}
  /\ ppdFiles = {}
  /\ up \in { UpInit(f, c, p, o, e, t) :
                 f \in FilePaths, c \in ClientIds, p \in UploadPrinterIds,
                 o \in PrintOptions, e \in BOOLEAN, t \in BOOLEAN }
  /\ RegistryInit

SpecUpload == InitUpload /\ [][NextUpload]_vars

(***************************************************************************)
(* registerClient, lines 269-377                                            *)
(***************************************************************************)
\* What every call records when it starts; error: a service call of the run
\* has answered with an error other than QueueDoesNotExist
RegStarted(op, clientId) ==
  [pc |-> "started", op |-> op, clientId |-> clientId, current |-> <<>>,
   before |-> QueueConfigurations, queuesBefore |-> sqsQueues,
   put |-> FALSE, deleted |-> FALSE, error |-> FALSE]

\* lines 269-282: the script is run with `register <clientId>`
RegisterCalled(r, clientId) ==
  /\ reg[r].pc \in {"idle", "done", "failed"}
  /\ reg' = [reg EXCEPT ![r] = [RegStarted("register", clientId) EXCEPT !.pc = "reg_queue"]]
  /\ UNCHANGED <<engine_vars, printer_vars, up, QueueConfigurations, sqsQueues>>

\* lines 281-285: getQueueUrl returns the queue, or throws and the catch
\* block goes on to create it
RegisterQueueLookup(r, found) ==
  /\ reg[r].pc = "reg_queue"
  /\ found => QueueNameOf(reg[r].clientId) \in sqsQueues
  /\ reg' = [reg EXCEPT ![r].pc = IF found THEN "reg_policy" ELSE "reg_create",
                        ![r].error = @ \/ (~found /\ QueueNameOf(reg[r].clientId) \in sqsQueues)]
  /\ UNCHANGED <<engine_vars, printer_vars, up, QueueConfigurations, sqsQueues>>

\* lines 286-294: CreateQueueCommand; an error leaves for the outer catch
RegisterCreateQueue(r, ok) ==
  /\ reg[r].pc = "reg_create"
  /\ IF ok
     THEN /\ sqsQueues' = sqsQueues \cup {QueueNameOf(reg[r].clientId)}
          /\ reg' = [reg EXCEPT ![r].pc = "reg_queue2"]
     ELSE /\ reg' = [reg EXCEPT ![r].pc = "failed", ![r].error = TRUE]
          /\ UNCHANGED sqsQueues
  /\ UNCHANGED <<engine_vars, printer_vars, up, QueueConfigurations>>

\* line 295: the second getQueueUrl, after the 2 s wait
RegisterQueueLookupAgain(r, found) ==
  /\ reg[r].pc = "reg_queue2"
  /\ found => QueueNameOf(reg[r].clientId) \in sqsQueues
  /\ reg' = [reg EXCEPT ![r].pc = IF found THEN "reg_policy" ELSE "failed",
                        ![r].error = @ \/ (~found /\ QueueNameOf(reg[r].clientId) \in sqsQueues)]
  /\ UNCHANGED <<engine_vars, printer_vars, up, QueueConfigurations, sqsQueues>>

\* lines 298-323: SetQueueAttributesCommand with the policy, then the 1 s wait
RegisterSetPolicy(r, ok) ==
  /\ reg[r].pc = "reg_policy"
  /\ ok => QueueNameOf(reg[r].clientId) \in sqsQueues
  /\ reg' = [reg EXCEPT ![r].pc = IF ok THEN "reg_get" ELSE "failed", ![r].error = @ \/ ~ok]
  /\ UNCHANGED <<engine_vars, printer_vars, up, QueueConfigurations, sqsQueues>>

\* lines 325-333 and 356-362: GetBucketNotificationConfigurationCommand and the
\* search for the client's entry; a found entry ends the call
RegisterGetConfiguration(r, ok) ==
  /\ reg[r].pc = "reg_get"
  /\ reg' = [reg EXCEPT ![r].current = IF ok THEN QueueConfigurations ELSE @,
                        ![r].error = @ \/ ~ok,
                        ![r].pc = IF ~ok THEN "failed"
                                  ELSE IF existingNotification(QueueConfigurations, reg[r].clientId)
                                       THEN "done" ELSE "reg_put"]
  /\ UNCHANGED <<engine_vars, printer_vars, up, QueueConfigurations, sqsQueues>>

\* lines 334-355 and 360-362: PutBucketNotificationConfigurationCommand writes
\* the configuration that was read, with the client's entry appended
RegisterPutConfiguration(r, ok) ==
  /\ reg[r].pc = "reg_put"
  /\ IF ok
     THEN /\ QueueConfigurations' = RegisterUpdate(reg[r].current, reg[r].clientId)
          /\ reg' = [reg EXCEPT ![r].pc = "done", ![r].put = TRUE]
     ELSE /\ reg' = [reg EXCEPT ![r].pc = "failed", ![r].error = TRUE]
          /\ UNCHANGED QueueConfigurations
  /\ UNCHANGED <<engine_vars, printer_vars, up, sqsQueues>>

(***************************************************************************)
(* unregisterClient, lines 379-440                                          *)
(***************************************************************************)
\* lines 379-388: the script is run with `unregister <clientId>`
UnregisterCalled(r, clientId) ==
  /\ reg[r].pc \in {"idle", "done", "failed"}
  /\ reg' = [reg EXCEPT ![r] = [RegStarted("unregister", clientId) EXCEPT !.pc = "unreg_get"]]
  /\ UNCHANGED <<engine_vars, printer_vars, up, QueueConfigurations, sqsQueues>>

\* lines 388-401 and 408-415: GetBucketNotificationConfigurationCommand, the
\* filter and the count of removed entries
UnregisterGetConfiguration(r, ok) ==
  /\ reg[r].pc = "unreg_get"
  /\ reg' = [reg EXCEPT ![r].current = IF ok THEN QueueConfigurations ELSE @,
                        ![r].error = @ \/ ~ok,
                        ![r].pc = IF ~ok THEN "failed"
                                  ELSE IF removedCount(QueueConfigurations, reg[r].clientId) > 0
                                       THEN "unreg_put" ELSE "unreg_queue"]
  /\ UNCHANGED <<engine_vars, printer_vars, up, QueueConfigurations, sqsQueues>>

\* lines 401-407 and 412-415: PutBucketNotificationConfigurationCommand writes
\* the filtered configuration
UnregisterPutConfiguration(r, ok) ==
  /\ reg[r].pc = "unreg_put"
  /\ IF ok
     THEN /\ QueueConfigurations' = UnregisterUpdate(reg[r].current, reg[r].clientId)
          /\ reg' = [reg EXCEPT ![r].pc = "unreg_queue", ![r].put = TRUE]
     ELSE /\ reg' = [reg EXCEPT ![r].pc = "failed", ![r].error = TRUE]
          /\ UNCHANGED QueueConfigurations
  /\ UNCHANGED <<engine_vars, printer_vars, up, sqsQueues>>

\* lines 415 and 418-426: getQueueUrl without createIfMissing; a missing queue
\* or any other error is logged and the call ends
UnregisterQueueLookup(r, found) ==
  /\ reg[r].pc = "unreg_queue"
  /\ found => QueueNameOf(reg[r].clientId) \in sqsQueues
  /\ reg' = [reg EXCEPT ![r].pc = IF found THEN "unreg_delete" ELSE "done",
                        ![r].error = @ \/ (~found /\ QueueNameOf(reg[r].clientId) \in sqsQueues)]
  /\ UNCHANGED <<engine_vars, printer_vars, up, QueueConfigurations, sqsQueues>>

\* lines 416-426: DeleteQueueCommand; an error is logged and the call ends
UnregisterDeleteQueue(r, ok) ==
  /\ reg[r].pc = "unreg_delete"
  /\ IF ok
     THEN /\ sqsQueues' = sqsQueues \ {QueueNameOf(reg[r].clientId)}
          /\ reg' = [reg EXCEPT ![r].pc = "done", ![r].deleted = TRUE]
     ELSE /\ reg' = [reg EXCEPT ![r].pc = "done", ![r].error = TRUE]
          /\ UNCHANGED sqsQueues
  /\ UNCHANGED <<engine_vars, printer_vars, up, QueueConfigurations>>

\* The steps of a call that is under way
RegistryStep(r) ==
  \/ \E found \in BOOLEAN : RegisterQueueLookup(r, found)
  \/ \E ok \in BOOLEAN : RegisterCreateQueue(r, ok)
  \/ \E found \in BOOLEAN : RegisterQueueLookupAgain(r, found)
  \/ \E ok \in BOOLEAN : RegisterSetPolicy(r, ok)
  \/ \E ok \in BOOLEAN : RegisterGetConfiguration(r, ok)
  \/ \E ok \in BOOLEAN : RegisterPutConfiguration(r, ok)
  \/ \E ok \in BOOLEAN : UnregisterGetConfiguration(r, ok)
  \/ \E ok \in BOOLEAN : UnregisterPutConfiguration(r, ok)
  \/ \E found \in BOOLEAN : UnregisterQueueLookup(r, found)
  \/ \E ok \in BOOLEAN : UnregisterDeleteQueue(r, ok)

\* The script run again and again on one machine, one call at a time
NextRegistry ==
  \/ \E clientId \in RegistryClients : RegisterCalled("r1", clientId)
  \/ \E clientId \in RegistryClients : UnregisterCalled("r1", clientId)
  \/ RegistryStep("r1")

\* The bucket and the queues as a call can find them
InitRegistry ==
  /\ EngineInit
  /\ TwoJobsQueued
  /\ pf = [m \in Msgs |-> PfInit(<<>>, FALSE)]
  /\ cups = {}
  /\ ppdFiles = {}
  /\ up = UpIdle
  /\ QueueConfigurations \in InitialConfigurations
  /\ sqsQueues \in SUBSET {QueueNameOf(c) : c \in RegistryClients}
  /\ reg = [r \in Calls |-> RegIdle]

SpecRegistry == InitRegistry /\ [][NextRegistry]_vars

\* The script run once on each of two machines, at the same time
NextRegistryConcurrent ==
  \/ \E r \in Calls, clientId \in RegistryClients :
       reg[r].pc = "idle" /\ RegisterCalled(r, clientId)
  \/ \E r \in Calls, clientId \in RegistryClients :
       reg[r].pc = "idle" /\ UnregisterCalled(r, clientId)
  \/ \E r \in Calls : RegistryStep(r)

SpecRegistryConcurrent == InitRegistry /\ [][NextRegistryConcurrent]_vars

(***************************************************************************)
(* Properties                                                              *)
(***************************************************************************)

SubmitEvent == IF TEST_MODE THEN "dryrun" ELSE "submit"

InTrace(m, e) == \E i \in 1..Len(trace[m]) : trace[m][i] = e

Started(m) == pc[m] # "idle" /\ path[m] \notin {"none", "skip"}

\* The body lacks the storage-event record shape
LacksShape(b) ==
  \/ ~b.json
  \/ Len(b.records) = 0
  \/ ~b.records[1].hasS3
  \/ \E i \in 1..Len(b.records[1].key) : b.records[1].key[i] = "%zz"

\* The body is a well-formed event whose key is outside clients/{CLIENT_ID}/
ForeignBody(b) ==
  /\ ~LacksShape(b)
  /\ LET k == b.records[1].key IN
     ~(Len(k) >= 4 /\ k[1] = "clients" /\ k[2] = "/" /\ k[3] = CLIENT_ID /\ k[4] = "/")

\* C1: a valid, in-namespace, first-time message whose fetch and print both
\* succeed causes exactly one fetch, then one print submission, then the
\* mark of its key, then one delete, in this order.
C1_SuccessOrder ==
  \A m \in Msgs :
    (path[m] = "print" /\ printResult[m] = "true") =>
      /\ trace[m] = <<"fetch", SubmitEvent, "mark", "delete">>
      /\ processedKeys[s3key[m]] # Absent

C1_Witness ==
  \E m \in Msgs :
    /\ path[m] = "print" /\ printResult[m] = "true" /\ ~TEST_MODE
    /\ pc[m] = "done" /\ queue[m] = "deleted"

\* C2 as stated: after printFile returned false the key is not recorded
\* and the message is not deleted.
C2_Original ==
  \A m \in Msgs :
    printResult[m] = "false" =>
      ~InTrace(m, "mark") /\ ~InTrace(m, "delete") /\ queue[m] # "deleted"

\* C2 amended: after printFile returned false processMessage records the key
\* and then issues the delete, exactly as after a successful dispatch.
C2_FailedPrintStillMarked ==
  \A m \in Msgs :
    printResult[m] = "false" =>
      /\ Len(trace[m]) >= 2
      /\ SubSeq(trace[m], Len(trace[m]) - 1, Len(trace[m])) = <<"mark", "delete">>
      /\ processedKeys[s3key[m]] # Absent

C2_Witness ==
  \E m \in Msgs :
    printResult[m] = "false" /\ InTrace(m, "submit") /\ queue[m] = "deleted"

\* C3: a message whose key is in the idempotency cache when it is checked is
\* neither fetched nor printed; the only external effect is its delete.
C3_DuplicateOnlyDeletes ==
  \A m \in Msgs :
    wasCached[m] =>
      /\ trace[m] = <<"delete">>
      /\ localFilePath[m] = Null
      /\ printResult[m] = "none"

C3_Witness ==
  \E m \in Msgs : wasCached[m] /\ pc[m] = "done" /\ queue[m] = "deleted"

\* C4 as stated: the process does not terminate while a processMessage
\* invocation is unfinished.
C4_Original ==
  exited => \A m \in Msgs : pc[m] \in {"idle", "done"}

\* C5: once a shutdown signal was delivered no receive is issued, neither by
\* the drain loop nor by the steady loop nor after a backoff sleep.
C5_NoReceiveAfterShutdown == ~recvAfterShutdown

C5_Witness ==
  /\ shutdownRequested
  /\ mainPc \in {"sleep_10s", "sleep_5s"}
  /\ \E m \in Msgs : rcvCount[m] > 0

\* C6 as stated: a message whose body lacks the storage-event record shape
\* is deleted, and neither fetched nor printed.
C6_Original ==
  \A m \in Msgs :
    (LacksShape(body[m]) /\ Started(m) /\ pc[m] = "done") =>
      trace[m] = <<"delete">>

\* C7: a valid message whose key is outside clients/{CLIENT_ID}/ is deleted
\* and neither fetched nor printed nor marked.
C7_ForeignOnlyDeletes ==
  \A m \in Msgs :
    (ForeignBody(body[m]) /\ Started(m)) =>
      /\ trace[m] = <<"delete">>
      /\ localFilePath[m] = Null
      /\ printResult[m] = "none"
      /\ processedKeys[s3key[m]] = Absent

C7_Witness ==
  \E m \in Msgs : ForeignBody(body[m]) /\ pc[m] = "done" /\ queue[m] = "deleted"

\* C8: when the fetch fails (GetObject or the local write) nothing is
\* printed, the key is not recorded and the message is not deleted.
C8_FetchFailureLeavesMessage ==
  \A m \in Msgs :
    path[m] \in {"get_failed", "write_failed"} =>
      /\ trace[m] = <<"fetch">>
      /\ printResult[m] = "none"
      /\ queue[m] # "deleted"

C8_Witness ==
  \E m \in Msgs : path[m] = "get_failed" /\ pc[m] = "done" /\ queue[m] = "invisible"

\* C9 as stated: when a processMessage invocation has finished, the local
\* file it created no longer exists.
C9_Original ==
  \A m \in Msgs : pc[m] = "done" => ~fileAtFinish[m]

\* C10 as stated: every key in the idempotency cache is the key of a job
\* whose print succeeded.
C10_Original ==
  \A k \in Keys : processedKeys[k] # Absent => k \in succeededKeys

\* C10 amended: every key in the idempotency cache is the key of a job for
\* which printFile was called and has returned, with success or failure.
C10_CachedKeysReachedPrint ==
  \A k \in Keys : processedKeys[k] # Absent => k \in returnedKeys

C10_Witness ==
  \E k \in Keys : processedKeys[k] # Absent /\ k \notin succeededKeys

\* C11: a run of the idempotency sweep removes every entry older than the
\* retention window and leaves every entry of age at most the window in
\* place with its timestamp.
C11_SweepRemovesExactlyExpired ==
  [][nextSweep' # nextSweep =>
       \A k \in Keys :
         processedKeys[k] # Absent =>
           IF now - processedKeys[k] > IDEMPOTENCY_CACHE_DURATION
           THEN processedKeys'[k] = Absent
           ELSE processedKeys'[k] = processedKeys[k]]_vars

\* the sweep at this instant has run and has dropped the key of a printed job
C11_Witness ==
  /\ now < nextSweep
  /\ now > IDEMPOTENCY_CACHE_DURATION
  /\ \E k \in returnedKeys : processedKeys[k] = Absent

(***************************************************************************)
(* Properties of printFile                                                 *)
(***************************************************************************)
\* positions of the slashes of an identifier
Slashes(id) == {i \in 1..Len(id) : id[i] = "/"}

\* name is "_" followed by addr with every "." replaced by "_"
IsDeviceNameOf(name, addr) ==
  /\ Len(name) = Len(addr) + 1
  /\ name[1] = "_"
  /\ \A i \in 1..Len(addr) : name[i + 1] = IF addr[i] = "." THEN "_" ELSE addr[i]

\* the invocation has passed the parse of lines 826-843
Parsed(m) == pf[m].pc # "idle" /\ pf[m].fileExists

\* the invocation has chosen its device name (line 854 or 858)
Named(m) == Parsed(m) /\ pf[m].pc \in {"lp", "returned"}

\* C12 as stated: an identifier with exactly one "/" resolves to (text before,
\* text after), otherwise a dotted quad resolves to (identifier, ipp), and in
\* both cases the device name is "_" + address with dots replaced.
C12_Original ==
  \A m \in Msgs :
    LET id == pf[m].printerId IN
    Parsed(m) =>
      IF Cardinality(Slashes(id)) = 1
      THEN LET i == CHOOSE i \in Slashes(id) : TRUE IN
           /\ pf[m].printerIp = SubSeq(id, 1, i - 1)
           /\ pf[m].protocol = SubSeq(id, i + 1, Len(id))
           /\ Named(m) => IsDeviceNameOf(pf[m].localPrinterName, SubSeq(id, 1, i - 1))
      ELSE ipRegexTest(id) =>
           /\ pf[m].printerIp = id
           /\ pf[m].protocol = <<"ipp">>
           /\ Named(m) => IsDeviceNameOf(pf[m].localPrinterName, id)

\* C12 amended: the resolution is a function of the identifier alone.  Exactly
\* one "/" with text on both sides: (text before, text after) and the device
\* name "_" + address with dots replaced.  No "/" and a dotted quad:
\* (identifier, ipp), device name likewise.  Anything else, an empty side of
\* the slash included: the device name is the identifier itself.  Equal
\* addresses give equal device names.
C12_ResolutionByIdentifier ==
  /\ \A m \in Msgs :
       LET id == pf[m].printerId IN
       Named(m) =>
         IF Cardinality(Slashes(id)) = 1
            /\ (CHOOSE i \in Slashes(id) : TRUE) \notin {1, Len(id)}
         THEN LET i == CHOOSE i \in Slashes(id) : TRUE IN
              /\ pf[m].printerIp = SubSeq(id, 1, i - 1)
              /\ pf[m].protocol = SubSeq(id, i + 1, Len(id))
              /\ IsDeviceNameOf(pf[m].localPrinterName, SubSeq(id, 1, i - 1))
         ELSE IF Slashes(id) = {} /\ ipRegexTest(id)
         THEN /\ pf[m].printerIp = id
              /\ pf[m].protocol = <<"ipp">>
              /\ IsDeviceNameOf(pf[m].localPrinterName, id)
         ELSE pf[m].localPrinterName = id
  /\ \A m, n \in Msgs :
       (Named(m) /\ Named(n) /\ IsNetworkPrinter(pf[m]) /\ IsNetworkPrinter(pf[n])
        /\ pf[m].printerIp = pf[n].printerIp)
       => pf[m].localPrinterName = pf[n].localPrinterName

\* one job named by address/protocol, one by an identifier ending in the slash
C12_Witness ==
  /\ pf["m1"].printerId = Ip5 \o <<"/", "socket">>
  /\ pf["m1"].localPrinterName = <<"_", "192", "_", "168", "_", "1", "_", "5">>
  /\ pf["m2"].printerId = Ip5 \o <<"/">>
  /\ pf["m2"].localPrinterName = pf["m2"].printerId

\* the commands of kind c the invocation has run or logged
EffectsOf(m, c) == {i \in 1..Len(pf[m].effects) : pf[m].effects[i].cmd = c}

\* C13: for an identifier with no "/" that is not a dotted quad, printFile
\* runs no registration command and submits the print to the device named by
\* the identifier verbatim, whether or not the print subsystem knows the name
\* (in dry-run the submission is the logged command line).
C13_DirectNameNeverRegisters ==
  \A m \in Msgs :
    LET id == pf[m].printerId IN
    (Parsed(m) /\ Slashes(id) = {} /\ ~ipRegexTest(id)) =>
      /\ EffectsOf(m, "lpadmin") = {} /\ EffectsOf(m, "log_lpadmin") = {}
      /\ pf[m].pc \in {"lpstat", "lp", "returned"}
      /\ pf[m].pc # "lpstat" =>
           /\ pf[m].localPrinterName = id
           /\ pf[m].effects[Len(pf[m].effects)] =
                Command(IF TEST_MODE THEN "log_lp" ELSE "lp", id, "", "")

\* a live print went to a direct name the print subsystem does not know
C13_Witness ==
  \E m \in Msgs :
    /\ ~TEST_MODE
    /\ pf[m].printerId = <<"Label_Printer_1">>
    /\ <<"Label_Printer_1">> \notin cups
    /\ pf[m].pc = "returned"
    /\ EffectsOf(m, "lp") # {}

\* C14 as stated: a job whose identifier is address/protocol with a protocol
\* other than socket, lpd, ipp is aborted, so no print is submitted for it:
\* every print submitted to an address-derived device name has a supported
\* protocol.
C14_Original ==
  \A m \in Msgs :
    (Parsed(m) /\ IsNetworkPrinter(pf[m]) /\ EffectsOf(m, "lp") # {})
      => pf[m].protocol \in SupportedProtocols

\* C15: in dry-run no lp command and no lpadmin command is executed, and
\* printFile returns true for every job with a printer id and an existing
\* file, the result a successful live print gives as well.
C15_DryRunExecutesNothing ==
  TEST_MODE =>
    \A m \in Msgs :
      /\ EffectsOf(m, "lp") = {} /\ EffectsOf(m, "lpadmin") = {}
      /\ pf[m].pc \notin {"lp", "lpadmin", "settle"}
      /\ (pf[m].pc = "returned" /\ Truthy(pf[m].printerId) /\ pf[m].fileExists)
           => pf[m].result = "true"

\* a dry-run job for a device that was not registered has returned
C15_Witness ==
  \E m \in Msgs :
    /\ TEST_MODE
    /\ pf[m].pc = "returned"
    /\ pf[m].result = "true"
    /\ EffectsOf(m, "log_lpadmin") # {}
    /\ EffectsOf(m, "log_lp") # {}

(***************************************************************************)
(* Properties of the engine, continued                                     *)
(***************************************************************************)
\* fetchS3DataAndDownload has returned to the invocation (line 770)
FetchCompleted(m) == path[m] \in {"print", "no_file", "stopped_after_fetch"}

\* C16 as stated: a job whose fetch has completed goes on to print, mark and
\* acknowledge, whether the shutdown was requested during the fetch or after
\* it: it is not stopped after the fetch, and the process does not end
\* before the job is done.
C16_Original ==
  \A m \in Msgs :
    FetchCompleted(m) =>
      /\ path[m] # "stopped_after_fetch"
      /\ exited => pc[m] = "done"

\* a step in which a step of processMessage(m) fails: the fetch, the write of
\* the file, the print or the delete
FailureStep(m) ==
  \/ GetObjectFails(m)
  \/ WriteFails(m)
  \/ WriteSucceeds(m) /\ path'[m] = "no_file"
  \/ PrintCompletes(m, FALSE)
  \/ DeleteCompletes(m, FALSE)

\* the step leaves what the invocation for n has and needs as it was: its
\* position, its effects, its message, the file it is writing or printing,
\* and every mark
SiblingUntouched(n) ==
  /\ pc'[n] = pc[n] /\ path'[n] = path[n] /\ trace'[n] = trace[n]
  /\ printResult'[n] = printResult[n] /\ queue'[n] = queue[n]
  /\ pc[n] \in {"writing", "printing"} =>
       files'[Basename(s3key[n])] = files[Basename(s3key[n])]
  /\ \A k \in Keys : processedKeys[k] # Absent => processedKeys'[k] # Absent

\* C17 as stated: within a batch the outcome of each message is independent:
\* a failed step of one message changes nothing a sibling has done or needs
\* in order to be fetched, printed, marked and deleted.
C17_Original ==
  [][\A m \in Msgs : FailureStep(m) =>
       \A n \in Msgs \ {m} : SiblingUntouched(n)]_vars

\* C18 as stated: no error stops the consumption loop: a failed receive, in
\* the startup drain or in the steady loop, is followed by a backoff sleep
\* unless a shutdown was requested, and the end of the sleep by another
\* receive.
C18_Original ==
  [][~shutdownRequested =>
       /\ (DrainReceiveFails \/ \E c \in ErrorCodes : SteadyReceiveFails(c))
            => mainPc' \in {"sleep_10s", "sleep_5s"}
       /\ BackoffEnds => mainPc' \in {"drain_recv", "steady_recv"}]_vars

\* an lp command run for the message has failed
SubmissionFailed(m) == \E i \in 1..Len(dispatches[m]) : dispatches[m][i] = "false"

\* C19: a job whose lp submission failed is not retried: from then on its
\* message is only on the way out of the queue (the delete after the failed
\* print or, should that delete fail, the delete of the redelivered
\* duplicate), and no second lp command is ever run for it.
C19_FailedSubmissionNotRetried ==
  \A m \in Msgs :
    SubmissionFailed(m) =>
      /\ Len(dispatches[m]) = 1
      /\ path[m] \in {"print", "dup"}
      /\ pc[m] \in {"deleting", "done"}
      /\ InTrace(m, "delete")

\* the message of a failed submission has left the queue
C19_Witness ==
  \E m \in Msgs :
    /\ SubmissionFailed(m)
    /\ pc[m] = "done"
    /\ queue[m] = "deleted"

(***************************************************************************)
(* Properties of uploadPrintJob                                            *)
(***************************************************************************)
\* f is the last segment of the path p: no "/" in it, and p is f or ends in "/" f
IsLastSegment(f, p) ==
  /\ Len(f) > 0 /\ Len(f) <= Len(p)
  /\ \A i \in 1..Len(f) : f[i] # "/" /\ f[i] = p[Len(p) - Len(f) + i]
  /\ Len(p) > Len(f) => p[Len(p) - Len(f)] = "/"

\* the values stored under a metadata field
FieldValues(md, field) == {e[2] : e \in {x \in md : x[1] = field}}

C21_UploadNeverThrows ==
  /\ up.pc \in {"idle", "resolving", "putting", "returned"}
  /\ up.pc = "returned" =>
       IF up.result.success
       THEN /\ up.stored
            /\ up.result.bucket = ResolvedBucketName
            /\ up.result.key = up.put.key /\ up.result.key # <<>>
       ELSE /\ up.result.error # ""
            /\ ~up.stored
            /\ (ReadFileThrows(up.filePath, up.exists)
                \/ up.result.error = "CredentialsProviderError") => ~up.sent

\* a call for a file that is not there has returned its error
C21_Witness ==
  /\ up.pc = "returned"
  /\ ~up.exists
  /\ ~up.result.success /\ up.result.error = "ENOENT"
  /\ ~up.sent

(***************************************************************************)
(* Properties of the idempotency cache under concurrency and over time     *)
(***************************************************************************)
\* the lp commands run so far for the object key k, over all messages
SubmissionsOf(k) ==
  LET carriers == {m \in Msgs : s3key[m] = k} IN
  IF carriers = {} THEN 0
  ELSE IF carriers = Msgs THEN Len(dispatches["m1"]) + Len(dispatches["m2"])
  ELSE LET m == CHOOSE x \in carriers : TRUE IN Len(dispatches[m])

\* C22: within one run of the client and one retention window, no object
\* key is submitted to the print subsystem more than once, whatever the
\* interleaving of the concurrently processed messages, two messages with
\* the same key in one batch included.
C22_Original ==
  \A k \in Keys : SubmissionsOf(k) <= 1

(***************************************************************************)
(* Properties of printer registration under concurrency                    *)
(***************************************************************************)
\* job a has started lpadmin for the device named n and the settle delay
\* after that command has not elapsed yet
SettlePending(a, n) ==
  /\ pf[a].pc \in {"lpadmin", "settle"}
  /\ getLocalPrinterName(pf[a].printerIp) = n

\* C23: once a registration command has been issued for a network device,
\* no job starts an lp command for that device until the settle delay
\* that follows the command has elapsed; this holds for the registering
\* job and for a concurrent job for the same address.
C23_Original ==
  [][\A b \in Msgs :
       (pf[b].pc # "lp" /\ pf'[b].pc = "lp") =>
         \A a \in Msgs \ {b} : ~SettlePending(a, pf'[b].localPrinterName)]_vars

(***************************************************************************)
(* Properties of the startup drain                                         *)
(***************************************************************************)
DrainPcs == {"drain_recv", "drain_wait"}

\* C24: the startup drain receives again and again; the messages of a
\* received batch are all started together and have all finished before
\* the next receive is issued; the drain ends at the first receive that
\* returns nothing, and the steady loop starts only after that and never
\* goes back to the drain.
C24_DrainThenSteady ==
  [][/\ mainPc \notin DrainPcs => mainPc' \notin DrainPcs
     /\ (mainPc = "drain_recv" /\ rcvCount' # rcvCount) =>
          /\ mainPc' = "drain_wait"
          /\ batch' = {m \in Msgs : rcvCount'[m] # rcvCount[m]}
          /\ \A m \in batch' : pc'[m] # "idle"
     /\ (mainPc = "drain_recv" /\ mainPc' # mainPc /\ rcvCount' = rcvCount) =>
          mainPc' \in {"steady_recv", "stopped", "failed"}
     /\ (mainPc = "drain_wait" /\ mainPc' # mainPc) =>
          /\ mainPc' = "drain_recv"
          /\ \A m \in Msgs : pc[m] \in {"idle", "done"}
     /\ mainPc' = "drain_recv" => \A m \in Msgs : pc'[m] \in {"idle", "done"}
     /\ (mainPc \in DrainPcs /\ mainPc' \in {"steady_recv", "steady_wait", "backoff"}) =>
          mainPc = "drain_recv" /\ batch = {} /\ queue' = queue]_vars

\* a batch of two is in progress during the drain, one message finished and
\* the other still printing
C24_Witness ==
  /\ mainPc = "drain_wait"
  /\ batch = Msgs
  /\ pc["m1"] = "done"
  /\ pc["m2"] = "printing"

\* C28: while the sweep timer runs, an expired entry can pass for present
\* only until the next sweep: no message is suppressed as a duplicate on
\* the basis of an entry older than the retention window plus one sweep
\* interval.
C28_StaleEntryBounded ==
  \A m \in Msgs :
    wasCached[m] =>
      /\ ageAtCheck[m] >= 0
      /\ ageAtCheck[m] <= IDEMPOTENCY_CACHE_DURATION + CLEANUP_INTERVAL

\* a message was suppressed on the basis of an expired entry that the next
\* sweep had not removed yet
C28_Witness ==
  \E m \in Msgs :
    /\ wasCached[m]
    /\ ageAtCheck[m] > IDEMPOTENCY_CACHE_DURATION
    /\ path[m] = "dup"
    /\ queue[m] = "deleted"

(***************************************************************************)
(* Properties of the cache over a restart of the process                   *)
(***************************************************************************)
\* the key the message m carries
KeyOf(m) == parseSqsMessage(body[m]).key

\* m is a print job of this client
IsJob(m) ==
  LET p == parseSqsMessage(body[m]) IN
  ~p.threw /\ p.isValid /\ StartsWith(p.key, ClientPrefix)

\* C27: the idempotency cache is empty at every start of the process: a
\* message is suppressed only on the basis of a print of the current run,
\* and a message redelivered after a restart for a key printed before the
\* restart is fetched and printed again.
C27_CacheEmptyAtStart ==
  /\ \A k \in Keys : processedKeys[k] # Absent => k \in returnedKeys
  /\ \A m \in Msgs : wasCached[m] => KeyOf(m) \in returnedKeys
  /\ \A m \in Msgs :
       (IsJob(m) /\ pc[m] \notin {"idle", "done"} /\ KeyOf(m) \notin returnedKeys) =>
         path[m] \in {"fetch", "print", "no_file"} /\ InTrace(m, "fetch")

\* the job was submitted in one run, and after a restart submitted again
C27_Witness ==
  /\ Len(dispatches["m1"]) = 2
  /\ ~wasCached["m1"]
  /\ KeyOf("m1") \in returnedKeys

\* C26: when the delete of a message fails after its key was recorded, the
\* key stays in the cache for the rest of the run, and the redelivered
\* message is deleted as a duplicate without a second fetch or print.  If
\* the process restarts in between, the redelivered message goes through
\* printFile again: no run deletes a job it has not handed to printFile.
C26_RecordedKeySurvivesFailedDelete ==
  /\ \A m \in Msgs :
       (IsJob(m) /\ pc[m] \notin {"idle"} /\ KeyOf(m) \in returnedKeys /\ path[m] # "dup") =>
         processedKeys[KeyOf(m)] # Absent
  /\ \A m \in Msgs :
       wasCached[m] =>
         /\ path[m] = "dup"
         /\ ~InTrace(m, "fetch") /\ ~InTrace(m, SubmitEvent)
         /\ processedKeys[KeyOf(m)] # Absent
  /\ \A m \in Msgs :
       (IsJob(m) /\ InTrace(m, "delete")) => KeyOf(m) \in returnedKeys

\* the delete after a successful print failed; the message came again in
\* the same run and was deleted as a duplicate
C26_Witness ==
  /\ wasCached["m1"]
  /\ rcvCount["m1"] = 2
  /\ queue["m1"] = "deleted"
  /\ dispatches["m1"] = <<"true">>

\* the process restarted after the print; the message came again and was
\* handed to printFile a second time before it was deleted
C26_WitnessRestart ==
  /\ ~wasCached["m1"]
  /\ queue["m1"] = "deleted"
  /\ Len(dispatches["m1"]) = 2

(***************************************************************************)
(* Properties of the in-flight counter                                     *)
(***************************************************************************)
\* the invocations of processMessage that have started and not finished
InFlight == {m \in Msgs : pc[m] \notin {"idle", "done"}}

\* C29: activeProcessingCount is never negative and always equals the
\* number of processMessage invocations that have started and not yet
\* finished: each invocation adds one when it starts and takes one away
\* when it ends, whether by return, by exception or by skipping.
C29_CounterCountsInFlight ==
  /\ activeProcessingCount >= 0
  /\ activeProcessingCount = Cardinality(InFlight)

\* of two invocations started together one has ended through the catch
\* block (its fetch failed) and the other is still printing
C29_Witness ==
  \E m \in Msgs : \E n \in Msgs \ {m} :
    /\ pc[m] = "done" /\ path[m] = "get_failed"
    /\ pc[n] = "printing"
    /\ activeProcessingCount = 1

(***************************************************************************)
(* Properties of the driver choice                                         *)
(***************************************************************************)
\* the registration commands of invocation m, run or logged in dry-run
RegistrationsOf(m) == EffectsOf(m, "lpadmin") \cup EffectsOf(m, "log_lpadmin")

\* C30: the registration of a device with protocol ipp never uses a driver
\* file: whatever driver files are on disk, the ipp registration command
\* names the ipp address of the device and the generic driver.
C30_IppUsesGenericDriver ==
  \A m \in Msgs : \A i \in RegistrationsOf(m) :
    LET c == pf[m].effects[i] IN
    /\ pf[m].protocol = <<"ipp">> <=> c.scheme = "ipp"
    /\ c.scheme = "ipp" => c.driver = "everywhere"

\* an ipp device was registered while every driver file was on disk
C30_Witness ==
  /\ ppdFiles = PpdNames
  /\ ~TEST_MODE
  /\ \E m \in Msgs : \E i \in EffectsOf(m, "lpadmin") :
       /\ pf[m].effects[i].scheme = "ipp"
       /\ pf[m].effects[i].driver = "everywhere"
       /\ pf[m].pc = "returned"

\* the order in which driver files are preferred for a protocol
DriverOrder(scheme) ==
  IF scheme = "lpd"
  THEN <<"ZebraPrinterPPD", "BrotherQL820NwbCupsPpd.gz",
         "brother_ql820nwb_printer_en.ppd", "ZebraPrinterPPD">>
  ELSE <<"BrotherQL820NwbCupsPpd.gz", "brother_ql820nwb_printer_en.ppd",
         "ZebraPrinterPPD">>

\* f is the first file of the order o that is on disk
IsFirstAvailable(f, o, disk) ==
  \E i \in 1..Len(o) :
    /\ o[i] = f /\ f \in disk
    /\ \A j \in 1..(i - 1) : o[j] \notin disk

\* C31: for the protocols socket and lpd and every combination of driver
\* files on disk, the registration uses the first available file in the
\* order override (lpd: the Zebra file), compressed vendor file,
\* uncompressed vendor file, any other known file; it uses the generic
\* driver exactly when no driver file is on disk.
C31_DriverSelectionOrder ==
  \A m \in Msgs : \A i \in RegistrationsOf(m) :
    LET c == pf[m].effects[i] IN
    c.scheme \in {"socket", "lpd"} =>
      /\ c.driver = "everywhere" <=> ppdFiles = {}
      /\ c.driver # "everywhere" => IsFirstAvailable(c.driver, DriverOrder(c.scheme), ppdFiles)

\* an lpd device was registered with the Zebra file although both vendor
\* files were on disk too
C31_Witness ==
  /\ ppdFiles = PpdNames
  /\ ~TEST_MODE
  /\ \E m \in Msgs : \E i \in EffectsOf(m, "lpadmin") :
       /\ pf[m].effects[i].scheme = "lpd"
       /\ pf[m].effects[i].driver = "ZebraPrinterPPD"

(***************************************************************************)
(* Properties of the steady loop's error handling                          *)
(***************************************************************************)
\* C32: in the steady loop a receive error of connectivity class takes the
\* long backoff and sets connectionLost, any other receive error takes the
\* short backoff and leaves connectionLost as it is, and over any run of
\* consecutive connectivity failures "Connection lost" is logged exactly
\* once.
C32_Original ==
  [][/\ (mainPc = "steady_recv" /\ mainPc' = "sleep_10s") => connectionLost'
     /\ (mainPc = "steady_recv" /\ mainPc' = "sleep_5s") => connectionLost' = connectionLost
     /\ mainPc' \in {"sleep_10s", "sleep_5s"} => mainPc \in {"steady_recv", mainPc'}
     /\ mainPc' = "sleep_10s" => lostLines' = 1]_vars

\* C39: connectionLost is cleared, and "Connected" logged, only by a
\* successful steady receive that returns at least one message; a receive
\* that returns an empty batch leaves the flag set; and the flag is set
\* only where "Connection lost" is logged, so that "Connected" is logged at
\* most once per "Connection lost".
C39_ClearedOnlyByMessages ==
  [][/\ (connectionLost /\ ~connectionLost') =>
          /\ mainPc = "steady_recv"
          /\ mainPc' \in {"steady_wait", "stopped"}
          /\ rcvCount' # rcvCount
     /\ (connectionLost /\ mainPc = "steady_recv" /\ mainPc' = "steady_recv"
           /\ rcvCount' = rcvCount) => connectionLost'
     /\ (~connectionLost /\ connectionLost') =>
          /\ mainPc = "steady_recv" /\ mainPc' = "sleep_10s"
          /\ lostLines' = lostLines + 1]_vars

\* after a loss was logged, a receive returned nothing and the flag is
\* still set; the run of failures is over
C39_Witness ==
  /\ connectionLost
  /\ lostLines = 0
  /\ mainPc = "steady_recv"

(***************************************************************************)
(* Properties of the temporary file, the cache and the envelope            *)
(***************************************************************************)
\* C35: from the completion of a job's fetch until the completion of its
\* print submission the job's temporary file exists and holds the job's own
\* object, under every interleaving of concurrently processed messages,
\* two messages whose keys share a basename included.
C35_Original ==
  \A m \in Msgs :
    /\ path[m] # "no_file"
    /\ pc[m] = "printing" => files[localFilePath[m]] = s3key[m]

\* the step is the mark of line 780 for message m: printFile has returned
\* and the key of m is recorded with the current time
IsMarkStep(m) ==
  /\ pc[m] \in {"writing", "printing"}
  /\ pc'[m] = "deleting"
  /\ processedKeys' = [processedKeys EXCEPT ![s3key[m]] = now]

\* C36: processMessage changes the idempotency cache only at the mark step
\* after the print step; the malformed, foreign, duplicate, fetch-failure
\* and skip paths leave it unchanged, and a detected duplicate does not
\* refresh the timestamp of its entry, so that an entry expires relative
\* to the print that was recorded first.
C36_CacheChangesOnlyAtMark ==
  [][processedKeys' # processedKeys =>
       \/ \E m \in Msgs : IsMarkStep(m)
       \/ /\ now = nextSweep /\ nextSweep' # nextSweep
          /\ \A k \in Keys : processedKeys'[k] \in {processedKeys[k], Absent}]_vars

\* a duplicate was detected and deleted some time after its key was
\* recorded, and the entry still carries the time of the print
C36_Witness ==
  \E m \in Msgs :
    /\ wasCached[m] /\ path[m] = "dup" /\ queue[m] = "deleted"
    /\ ageAtCheck[m] > 0
    /\ processedKeys[KeyOf(m)] # Absent
    /\ now - processedKeys[KeyOf(m)] >= ageAtCheck[m]

\* the object key of the first record of the envelope of m
FirstKey(m) == decodeURIComponent(body[m].records[1].key)

\* the number of times the event e occurs in the trace of m
Occurrences(m, e) == Cardinality({i \in 1..Len(trace[m]) : trace[m][i] = e})

\* C37: each queue message yields at most one job: only the first record of
\* the envelope is read, and once its job is printed the whole message is
\* deleted, so that no further record of the message is fetched or printed.
C37_OneJobPerMessage ==
  /\ \A m \in Msgs :
       (Len(body[m].records) > 1 /\ Started(m)) =>
         /\ s3key[m] = FirstKey(m)
         /\ Occurrences(m, "fetch") <= 1
         /\ Occurrences(m, SubmitEvent) <= 1
  /\ \A k \in returnedKeys : \E m \in Msgs : ~LacksShape(body[m]) /\ FirstKey(m) = k
  /\ \A p \in TmpPaths :
       files[p] # NoFile => \E m \in Msgs : ~LacksShape(body[m]) /\ FirstKey(m) = files[p]

\* a message with two records has been printed and deleted; the object of
\* its second record was never fetched or printed
C37_Witness ==
  \E m \in Msgs :
    /\ body[m] = TwoRecords
    /\ queue[m] = "deleted"
    /\ trace[m] = <<"fetch", SubmitEvent, "mark", "delete">>
    /\ returnedKeys = {FirstKey(m)}
    /\ files["b"] = NoFile

(***************************************************************************)
(* Properties of the client registry                                       *)
(***************************************************************************)
\* the configuration holds an entry with the client's Id
HasEntry(config, clientId) ==
  \E i \in 1..Len(config) : config[i].Id = NotificationIdOf(clientId)

\* the call ended on the success path of registerClient for the client
Registered(r, clientId) ==
  reg[r].pc = "done" /\ reg[r].op = "register" /\ reg[r].clientId = clientId

\* C38: when two machines have registered two different clients at the same
\* time and both calls succeeded, the bucket's configuration holds the
\* entries of both clients.  Violated: each call writes back the
\* configuration it read (lines 325-354), so the later write drops the entry
\* the other call added in between.
C38_Original ==
  \A c, d \in RegistryClients :
    (c # d /\ Registered("r1", c) /\ Registered("r2", d))
      => HasEntry(QueueConfigurations, c) /\ HasEntry(QueueConfigurations, d)

\* the positions of the client's entries in a configuration
EntriesOf(config, clientId) ==
  { i \in 1..Len(config) : config[i].Id = NotificationIdOf(clientId) }

\* the entries of everybody else, in order
OthersOf(config, clientId) ==
  SelectSeq(config, LAMBDA e : e.Id # NotificationIdOf(clientId))

\* C33: when registerClient has succeeded for client c, with no other call
\* in between, the bucket holds exactly one entry with Id PrintServer-c,
\* that entry has the prefix clients/c/, and all other entries are as they
\* were before; when c's entry was there before, nothing was written and
\* the configuration is the one from before.
C33_RegisterIdempotent ==
  \A c \in RegistryClients :
    Registered("r1", c) =>
      /\ Cardinality(EntriesOf(QueueConfigurations, c)) = 1
      /\ \A i \in EntriesOf(QueueConfigurations, c) :
           QueueConfigurations[i].prefix = <<"clients", "/">> \o c \o <<"/">>
      /\ OthersOf(QueueConfigurations, c) = OthersOf(reg["r1"].before, c)
      /\ HasEntry(reg["r1"].before, c) =>
           (~reg["r1"].put /\ QueueConfigurations = reg["r1"].before)

\* registerClient has run for a client whose entry was in the bucket, next
\* to the entry of another client, and has left the configuration alone
C33_Witness ==
  \E c, d \in RegistryClients :
    /\ c # d
    /\ Registered("r1", c)
    /\ HasEntry(reg["r1"].before, c)
    /\ HasEntry(reg["r1"].before, d)
    /\ ~reg["r1"].put
    /\ Cardinality(EntriesOf(QueueConfigurations, c)) = 1

\* the call ended on the success path of unregisterClient for the client
Unregistered(r, clientId) ==
  reg[r].pc = "done" /\ reg[r].op = "unregister" /\ reg[r].clientId = clientId

\* C34: when unregisterClient has succeeded for client c, with no other call
\* in between, the bucket holds no entry with Id PrintServer-c and all other
\* entries as they were before, in order; the queues of all other clients
\* are as before, and the queue printserver-c is gone unless the queue
\* service answered with an error; the configuration was written exactly
\* when it held an entry of c before.
C34_UnregisterFrame ==
  \A c \in RegistryClients :
    Unregistered("r1", c) =>
      /\ EntriesOf(QueueConfigurations, c) = {}
      /\ QueueConfigurations = OthersOf(reg["r1"].before, c)
      /\ sqsQueues \ {QueueNameOf(c)} = reg["r1"].queuesBefore \ {QueueNameOf(c)}
      /\ ~reg["r1"].error => QueueNameOf(c) \notin sqsQueues
      /\ reg["r1"].put <=> HasEntry(reg["r1"].before, c)

\* unregisterClient has removed the entry of a client and deleted its queue
\* while the entry and the queue of another client and a foreign entry stayed
C34_Witness ==
  \E c, d \in RegistryClients :
    /\ c # d
    /\ Unregistered("r1", c)
    /\ ~reg["r1"].error
    /\ reg["r1"].put
    /\ reg["r1"].deleted
    /\ HasEntry(reg["r1"].before, c)
    /\ QueueNameOf(c) \in reg["r1"].queuesBefore
    /\ HasEntry(QueueConfigurations, d)
    /\ Len(QueueConfigurations) = 2
    /\ QueueNameOf(d) \in sqsQueues

====
